---- MODULE Spec2Model ----
(***************************************************************************)
(* LobsterShell request-governance core: the hash-linked audit ledger      *)
(* (AuditChain and the legacy AuditLogger), the capability-gated tool      *)
(* executor, the layered security gate and the SoulCore orchestrator.      *)
(*                                                                         *)
(* Conventions.  Python None is the string "None" for optional strings,    *)
(* NoNum (-1) for optional numbers, NoId (0) for an optional entry id and  *)
(* NoHash (the empty tuple) for an optional hash.  SHA-256 over the        *)
(* canonical JSON is modelled as the tuple of the hashed fields: an        *)
(* injective (collision-free) digest, so two digests are equal exactly     *)
(* when all hashed fields are equal.                                       *)
(***************************************************************************)
EXTENDS Integers, Sequences, FiniteSets, TLC

VARIABLES
    entries,            \* AuditChain._entries
    last_hash,          \* AuditChain._last_hash
    index_by_session,   \* AuditChain._index_by_session (positions in entries)
    index_by_user,      \* AuditChain._index_by_user (positions in entries)
    tampered,           \* which stored entry has been mutated from outside, if any
    logger_entries,     \* AuditLogger._entries
    logger_last_hash,   \* AuditLogger._last_hash
    tool_meta,          \* ToolRegistry: tool id -> the registered tool's metadata
    tool_stats,         \* ToolRegistry: tool id -> usage counters
    enable_sandbox,     \* ToolExecutor.enable_sandbox
    n_calls,            \* how many ToolExecutor.execute calls have been made
    last_call,          \* the latest ToolExecutor.execute call and its outcome
    tool_audit,         \* what the audit callback received during the latest call
    checks,             \* LayeredSecuritySystem.checks, in registration order
    fail_fast,          \* LayeredSecuritySystem.fail_fast
    gate_run,           \* the latest run_phase / run_all call and what it returned
    enable_audit,       \* SoulCore: whether audit_chain exists
    executors,          \* SoulCore._executors: the modes with a registered executor
    soul_stats,         \* SoulCore._stats
    n_runs,             \* how many SoulCore.execute calls have been started
    req,                \* per request: the ExecutionContext, the locals of execute, its result
    sql_query,          \* a SQL string, as the sequence of its characters
    sql_check,          \* what the two read-only checks returned for it, if they ran
    sql_run,            \* what SQLQueryRunner.execute did with it, if it ran
    reg_lock,           \* ToolRegistry._lock: the task that holds it, or NoId
    reg_tasks,          \* per task: where it is in its registry call, and its locals
    reg_count,          \* registry calls started; record_calls completed since the registration
    loader_loaded,      \* ToolLoader.loaded_tools: the ids of the loaded tools
    loader_call,        \* the latest ToolLoader call and what it did
    mode_engine,        \* DynamicModeEngine and ModeController: thresholds, overrides, hooks
    mode_call,          \* the latest decide / decide_mode / analyze call and what it returned
    overwriter,         \* ZeroHallucinationOverwriter: data_sources, rules, query_runners
    ow_call,            \* the latest overwrite call and what it returned
    query_value,        \* a context value that _build_query is to put into a query template
    built_query,        \* what _build_query made of the template with it, once it has run
    search_call,        \* the latest AuditChain.search call and the positions of the entries it returned
    policy_rules,       \* PolicyEngine._rules, a dict: the rules in insertion order
    policy_call,        \* the latest PolicyEngine.check call and its decision
    race_registered,    \* ToolRegistry._tools[tool_id]: the registered instance
    race_loaded,        \* ToolLoader.loaded_tools[tool_id]: the loaded instance
    race_cleaned,       \* the instances whose cleanup() has been called, and how it ended
    race_exec,          \* the tasks that run ToolExecutor.execute for the tool id
    race_unload,        \* the task that runs ToolLoader.unload_tool for the tool id
    race_loads          \* the number of instances loaded so far

auditVars == <<entries, last_hash, index_by_session, index_by_user, tampered,
               logger_entries, logger_last_hash>>
toolVars == <<tool_meta, tool_stats, enable_sandbox, n_calls, last_call, tool_audit>>
gateVars == <<checks, fail_fast, gate_run>>
soulVars == <<enable_audit, executors, soul_stats, n_runs, req>>
sqlVars == <<sql_query, sql_check, sql_run>>
registryVars == <<reg_lock, reg_tasks, reg_count>>
loaderVars == <<loader_loaded, loader_call>>
modeVars == <<mode_engine, mode_call>>
overwriterVars == <<overwriter, ow_call>>
queryVars == <<query_value, built_query>>
ledgerVars == <<search_call>>
policyVars == <<policy_rules, policy_call>>
raceVars == <<race_registered, race_loaded, race_cleaned, race_exec, race_unload, race_loads>>
vars == <<auditVars, toolVars, gateVars, soulVars, sqlVars, registryVars, loaderVars,
          modeVars, overwriterVars, queryVars, ledgerVars, policyVars, raceVars>>
\* What the operations of one subsystem leave alone.
notAudit ==
    <<toolVars, gateVars, soulVars, sqlVars, registryVars, loaderVars, modeVars, overwriterVars,
      queryVars, ledgerVars, policyVars, raceVars>>
notTool ==
    <<auditVars, gateVars, soulVars, sqlVars, registryVars, loaderVars, modeVars, overwriterVars,
      queryVars, ledgerVars, policyVars, raceVars>>
notGate ==
    <<auditVars, toolVars, soulVars, sqlVars, registryVars, loaderVars, modeVars, overwriterVars,
      queryVars, ledgerVars, policyVars, raceVars>>
notSoul == <<tampered, logger_entries, logger_last_hash, toolVars, gateVars, sqlVars,
             registryVars, loaderVars, modeVars, overwriterVars, queryVars, ledgerVars,
             policyVars, raceVars>>
notSql ==
    <<auditVars, toolVars, gateVars, soulVars, registryVars, loaderVars, modeVars, overwriterVars,
      queryVars, ledgerVars, policyVars, raceVars>>
notRegistry == <<auditVars, enable_sandbox, n_calls, last_call, tool_audit, gateVars,
                 soulVars, sqlVars, loaderVars, modeVars, overwriterVars, queryVars,
                 ledgerVars, policyVars, raceVars>>
notLoader == <<auditVars, enable_sandbox, n_calls, last_call, tool_audit, gateVars,
               soulVars, sqlVars, registryVars, modeVars,
               overwriterVars, queryVars, ledgerVars, policyVars, raceVars>>
notMode == <<auditVars, toolVars, gateVars, soulVars, sqlVars, registryVars, loaderVars,
             overwriterVars, queryVars, ledgerVars, policyVars, raceVars>>
notOverwriter == <<auditVars, toolVars, gateVars, soulVars, sqlVars, registryVars,
                   loaderVars, modeVars, queryVars, ledgerVars, policyVars, raceVars>>
notQuery == <<auditVars, toolVars, gateVars, soulVars, sqlVars, registryVars, loaderVars,
    modeVars, overwriterVars, ledgerVars, policyVars, raceVars>>
notLedger == <<auditVars, toolVars, gateVars, soulVars, sqlVars, registryVars, loaderVars,
    modeVars, overwriterVars, queryVars, policyVars, raceVars>>
notPolicy == <<auditVars, toolVars, gateVars, soulVars, sqlVars, registryVars, loaderVars,
    modeVars, overwriterVars, queryVars, ledgerVars, raceVars>>
notRace == <<auditVars, toolVars, gateVars, soulVars, sqlVars, registryVars, loaderVars,
    modeVars, overwriterVars, queryVars, ledgerVars, policyVars>>

\* ---------------------------------------------------------------- bounds
MaxEntries == 2
MaxLogEntries == 2
MaxCalls == 2
MaxCustomChecks == 1
MaxRuns == 1
MaxFragments == 3
MaxTasks == 2
MaxOps == 3
MaxRequests == 2
MaxTools == 2
MaxLoads == 2
MaxHooks == 2
MaxMatched == 3
MaxValueLen == 3

\* ------------------------------------------------------------ audit chain
Range(f) == {f[x] : x \in DOMAIN f}
NoHash == <<>>
NoId == 0
None == "None"
NoNum == -1

AuditLevels == {"info", "error"}
AuditEventTypes == {"mode_decision", "security_check", "data_overwrite",
                    "execution_start", "execution_end"}

\* AuditEntry: the dataclass defaults of the optional fields.
EntryDefaults ==
    [user_id |-> None, tenant_id |-> None, decision |-> None, reason |-> None,
     confidence |-> NoNum, success |-> TRUE, duration_ms |-> NoNum]

\* AuditEntry.compute_hash: the digest covers exactly these seven fields.
compute_hash(e) ==
    <<e.entry_id, e.timestamp, e.event_type, e.action, e.session_id,
      e.request_id, e.previous_hash>>

\* A mutant of finalize: the digest is taken before the entry is linked.
FinalizeHashBeforeLink(e, previous_hash) ==
    LET hashed == [e EXCEPT !.entry_hash = compute_hash(e)]
    IN  [hashed EXCEPT !.previous_hash = previous_hash]

\* AuditEntry.finalize
finalize(e, previous_hash) ==
    LET linked == [e EXCEPT !.previous_hash = previous_hash]
    IN  [linked EXCEPT !.entry_hash = compute_hash(linked)]

\* dict.setdefault(key, []).append(pos), skipped for a falsy key
IndexAppend(index, key, pos) ==
    IF key = None \/ key = ""
    THEN index
    ELSE IF key \in DOMAIN index
         THEN [index EXCEPT ![key] = Append(@, pos)]
         ELSE [k \in DOMAIN index \cup {key} |->
                  IF k = key THEN <<pos>> ELSE index[k]]

\* The ledger as one value: what add reads and writes.
Chain ==
    [entries |-> entries, last_hash |-> last_hash,
     index_by_session |-> index_by_session, index_by_user |-> index_by_user]

SetChain(st) ==
    /\ entries' = st.entries
    /\ last_hash' = st.last_hash
    /\ index_by_session' = st.index_by_session
    /\ index_by_user' = st.index_by_user

\* A mutant of the append: the ledger's last hash is not advanced.
AddStaleLastHash(st, e) ==
    LET done == finalize(e, st.last_hash)
        pos == Len(st.entries) + 1
    IN  [entries |-> Append(st.entries, done),
         last_hash |-> st.last_hash,
         index_by_session |-> IndexAppend(st.index_by_session, done.session_id, pos),
         index_by_user |-> IndexAppend(st.index_by_user, done.user_id, pos)]

\* AuditChain.add: the ledger after the append
add(st, e) ==
    LET done == finalize(e, st.last_hash)
        pos == Len(st.entries) + 1
    IN  [entries |-> Append(st.entries, done),
         last_hash |-> done.entry_hash,
         index_by_session |-> IndexAppend(st.index_by_session, done.session_id, pos),
         index_by_user |-> IndexAppend(st.index_by_user, done.user_id, pos)]

\* The AuditEntry that create_entry constructs (uuid4 is a fresh id: the
\* number of entries created so far plus one; utcnow is the argument ts).
NewEntry(st, event_type, action, description, session_id, request_id, level, kw, ts) ==
    [entry_id |-> Len(st.entries) + 1, timestamp |-> ts, level |-> level,
     event_type |-> event_type, session_id |-> session_id,
     request_id |-> request_id, action |-> action, description |-> description,
     user_id |-> kw.user_id, tenant_id |-> kw.tenant_id,
     decision |-> kw.decision, reason |-> kw.reason,
     confidence |-> kw.confidence, success |-> kw.success,
     duration_ms |-> kw.duration_ms,
     entry_hash |-> NoHash, previous_hash |-> NoHash]

\* AuditChain.create_entry: the ledger after the call
create_entry(st, event_type, action, description, session_id, request_id, level, kw, ts) ==
    add(st, NewEntry(st, event_type, action, description, session_id, request_id,
                     level, kw, ts))

\* AuditChain.verify_chain: the walk from position i with the running hash.
RECURSIVE VerifyFrom(_, _, _)
VerifyFrom(es, i, previous_hash) ==
    IF i > Len(es)
    THEN [total_entries |-> Len(es), valid |-> TRUE, broken_at |-> NoId]
    ELSE IF es[i].previous_hash # previous_hash
         THEN [total_entries |-> Len(es), valid |-> FALSE,
               broken_at |-> es[i].entry_id]
         ELSE IF es[i].entry_hash # compute_hash(es[i])
              THEN [total_entries |-> Len(es), valid |-> FALSE,
                    broken_at |-> es[i].entry_id]
              ELSE VerifyFrom(es, i + 1, es[i].entry_hash)

verify_chain(es) ==
    IF Len(es) = 0
    THEN [total_entries |-> 0, valid |-> TRUE, broken_at |-> NoId]
    ELSE VerifyFrom(es, 1, NoHash)

\* ------------------------------------------------------ legacy AuditLogger
\* 00_core AuditEntry.compute_hash: timestamp, level, action, request,
\* response and previous_hash are hashed.
logger_compute_hash(e) ==
    <<e.timestamp, e.level, e.action, e.request, e.response, e.previous_hash>>

\* A mutant of the legacy append: the entry is linked to nothing.
LogUnlinked(action, level, user_id, request, ts) ==
    LET e == [timestamp |-> ts, level |-> level, action |-> action,
              user_id |-> user_id, request |-> request, response |-> None,
              entry_hash |-> NoHash, previous_hash |-> NoHash]
        done == [e EXCEPT !.entry_hash = logger_compute_hash(e)]
    IN  /\ logger_last_hash' = done.entry_hash
        /\ logger_entries' = Append(logger_entries, done)

\* AuditLogger.log
log(action, level, user_id, request, ts) ==
    LET e == [timestamp |-> ts, level |-> level, action |-> action,
              user_id |-> user_id, request |-> request, response |-> None,
              entry_hash |-> NoHash, previous_hash |-> logger_last_hash]
        done == [e EXCEPT !.entry_hash = logger_compute_hash(e)]
    IN  /\ logger_last_hash' = done.entry_hash
        /\ logger_entries' = Append(logger_entries, done)

\* AuditLogger.verify_chain
RECURSIVE LoggerVerifyFrom(_, _, _)
LoggerVerifyFrom(es, i, previous_hash) ==
    IF i > Len(es)
    THEN TRUE
    ELSE IF es[i].previous_hash # previous_hash
         THEN FALSE
         ELSE IF logger_compute_hash(es[i]) # es[i].entry_hash
              THEN FALSE
              ELSE LoggerVerifyFrom(es, i + 1, es[i].entry_hash)

logger_verify_chain(es) == IF Len(es) = 0 THEN TRUE ELSE LoggerVerifyFrom(es, 1, NoHash)

\* ------------------------------------------------- audit ledger: operations
Sessions == {"sess-1", "sess-2"}
Users == {"user-1"}

\* The keyword arguments a caller passes to create_entry: none, or all.
EntryKwargs ==
    {EntryDefaults,
     [user_id |-> "user-1", tenant_id |-> "tenant-1", decision |-> "hybrid",
      reason |-> "because", confidence |-> 80, success |-> FALSE,
      duration_ms |-> 5]}

NotTampered == [idx |-> 0, field |-> None]

\* AuditChain.__init__ and AuditLogger.__init__
AuditFresh ==
    /\ entries = <<>>
    /\ last_hash = NoHash
    /\ index_by_session = <<>>
    /\ index_by_user = <<>>
    /\ tampered = NotTampered
    /\ logger_entries = <<>>
    /\ logger_last_hash = NoHash

\* A caller appends an entry through create_entry.
AppendEntry ==
    /\ Len(entries) < MaxEntries
    /\ \E s \in Sessions, kw \in EntryKwargs :
          SetChain(create_entry(Chain, "execution_start", "act", "text", s, "req-1",
                                "info", kw, Len(entries)))
    /\ UNCHANGED <<tampered, logger_entries, logger_last_hash>>
    /\ UNCHANGED notAudit

\* A caller logs through the legacy logger.
LoggerLog ==
    /\ Len(logger_entries) < MaxLogEntries
    /\ \E rq \in {None, "request"} :
          log("act", "info", None, rq, Len(logger_entries))
    /\ UNCHANGED <<entries, last_hash, index_by_session, index_by_user, tampered>>
    /\ UNCHANGED notAudit

\* The values one field of a stored entry can be overwritten with.
FieldValues(f) ==
    CASE f = "entry_id" -> 0 .. MaxEntries + 1
      [] f = "timestamp" -> 0 .. MaxEntries
      [] f = "level" -> AuditLevels
      [] f = "event_type" -> AuditEventTypes
      [] f = "session_id" -> Sessions
      [] f = "request_id" -> {"req-1", "req-2"}
      [] f = "user_id" -> {None, "user-1"}
      [] f = "tenant_id" -> {None, "tenant-1"}
      [] f = "action" -> {"act", "other"}
      [] f = "description" -> {"text", "edited"}
      [] f = "decision" -> {None, "hybrid"}
      [] f = "reason" -> {None, "because"}
      [] f = "confidence" -> {NoNum, 80}
      [] f = "success" -> BOOLEAN
      [] f = "duration_ms" -> {NoNum, 5}
      [] f = "entry_hash" -> {NoHash, <<"forged">>} \cup {e.entry_hash : e \in Range(entries)}
      [] f = "previous_hash" -> {NoHash, <<"forged">>} \cup {e.entry_hash : e \in Range(entries)}

EntryFields ==
    {"entry_id", "timestamp", "level", "event_type", "session_id", "request_id",
     "user_id", "tenant_id", "action", "description", "decision", "reason",
     "confidence", "success", "duration_ms", "entry_hash", "previous_hash"}

\* Something outside the ledger overwrites one field of a stored entry
\* (the entries are plain mutable objects held by the list).
Tamper ==
    /\ tampered = NotTampered
    /\ \E i \in 1 .. Len(entries), f \in EntryFields :
          \E v \in FieldValues(f) :
              /\ v # entries[i][f]
              /\ entries' = [entries EXCEPT ![i][f] = v]
              /\ tampered' = [idx |-> i, field |-> f]
    /\ UNCHANGED <<last_hash, index_by_session, index_by_user,
                   logger_entries, logger_last_hash>>
    /\ UNCHANGED notAudit

AuditNext == AppendEntry \/ LoggerLog \/ Tamper

VerifyAfterAppends ==
    /\ tampered = NotTampered =>
          verify_chain(entries) =
              [total_entries |-> Len(entries), valid |-> TRUE, broken_at |-> NoId]
    /\ logger_verify_chain(logger_entries)

VerifyAfterAppendsWitness ==
    /\ tampered = NotTampered
    /\ Len(entries) >= 2
    /\ verify_chain(entries).total_entries = Len(entries)
    /\ Len(logger_entries) >= 1

\* C4: once any single field of a stored entry has been changed,
\* verify_chain reports invalid, broken at that entry's id.
TamperDetected ==
    tampered # NotTampered =>
        /\ ~verify_chain(entries).valid
        /\ verify_chain(entries).broken_at = entries[tampered.idx].entry_id

\* ------------------------------------------- audit ledger: search, re-add
\* The loop of AuditChain.search over entries_to_search (positions in the
\* ledger): an entry that passes the filter is appended, and only then is the
\* number of results compared with limit.
RECURSIVE SearchFrom(_, _, _, _, _, _)
SearchFrom(es, to_search, i, session_id, limit, results) ==
    IF i > Len(to_search)
    THEN results
    ELSE IF session_id # None /\ es[to_search[i]].session_id # session_id
         THEN SearchFrom(es, to_search, i + 1, session_id, limit, results)
         ELSE IF Len(results) + 1 >= limit
              THEN Append(results, to_search[i])
              ELSE SearchFrom(es, to_search, i + 1, session_id, limit,
                              Append(results, to_search[i]))

\* AuditChain.search(session_id=session_id, limit=limit), the other filters
\* left at None: the positions of the entries returned.
search(st, session_id, limit) ==
    IF session_id # None /\ session_id \in DOMAIN st.index_by_session
    THEN SearchFrom(st.entries, st.index_by_session[session_id], 1, session_id, limit, <<>>)
    ELSE SearchFrom(st.entries, [i \in 1 .. Len(st.entries) |-> i], 1, session_id,
                    limit, <<>>)

NoSearch == [called |-> FALSE, session_id |-> None, limit |-> NoNum, results |-> <<>>]

LedgerFresh == search_call = NoSearch

\* search(session_id=..., limit=...)
AuditSearch ==
    /\ \E session_id \in Sessions, limit \in 0 .. MaxEntries + 1 :
          search_call' = [called |-> TRUE, session_id |-> session_id, limit |-> limit,
                          results |-> search(Chain, session_id, limit)]
    /\ UNCHANGED notLedger

\* A caller hands add an entry object that the ledger already holds:
\* finalize writes to that one object, which the list then holds twice.
AuditReAdd ==
    /\ Len(entries) < MaxEntries + 1
    /\ \E i \in 1 .. Len(entries) :
          LET done == add(Chain, entries[i])
          IN  SetChain([done EXCEPT !.entries =
                  [j \in 1 .. Len(done.entries) |->
                      IF done.entries[j].entry_id = entries[i].entry_id
                      THEN done.entries[Len(done.entries)]
                      ELSE done.entries[j]]])
    /\ UNCHANGED <<tampered, logger_entries, logger_last_hash>>
    /\ UNCHANGED notAudit

LedgerNext == AppendEntry \/ AuditSearch \/ AuditReAdd

\* ------------------------------------------------------------ tool runtime
\* Permission: a part of the closed vocabulary.
Permissions == {"database:read", "database:write"}

\* ToolInterface.check_permission, a mutant: one granted permission suffices.
CheckPermissionAny(required, granted) ==
    required = {} \/ required \cap granted # {}

\* ToolInterface.check_permission
check_permission(required, granted) == required \subseteq granted

\* ToolRegistry.get_tool: the registered tool, or None
get_tool(metas, tool_id) == IF tool_id \in DOMAIN metas THEN tool_id ELSE None

\* ToolRegistry.record_call, a mutant: every call counts as a success.
RecordCallAsSuccess(stats, tool_id, success, time_ms) ==
    IF tool_id \in DOMAIN stats
    THEN [stats EXCEPT ![tool_id] =
             [call_count |-> @.call_count + 1,
              success_count |-> @.success_count + 1,
              error_count |-> @.error_count,
              total_time_ms |-> @.total_time_ms + time_ms]]
    ELSE stats

\* ToolRegistry.record_call
record_call(stats, tool_id, success, time_ms) ==
    IF tool_id \in DOMAIN stats
    THEN [stats EXCEPT ![tool_id] =
             [call_count |-> @.call_count + 1,
              success_count |-> @.success_count + (IF success THEN 1 ELSE 0),
              error_count |-> @.error_count + (IF success THEN 0 ELSE 1),
              total_time_ms |-> @.total_time_ms + time_ms]]
    ELSE stats

\* ToolResult
ToolResult(success, error, missing) ==
    [success |-> success, error |-> error, missing |-> missing]

\* The audit_data the executor hands to its callback.
AuditData(tool_id, success, error) ==
    [tool_id |-> tool_id, success |-> success, error |-> error]

\* What a tool's validate_input does with the parameters.
ValidateOutcomes == {"valid", "invalid", "raise"}
\* How a tool's execute ends when it is left to run: success, a failed
\* ToolResult, an exception.
ExecuteOutcomes == {"ok", "failed", "raise"}

\* ToolExecutor.__init__: default_timeout, in seconds
default_timeout == 30

\* One call of ToolExecutor.execute: the tool_id, context.permissions, what
\* the tool's validate_input and execute do and how many seconds the execute
\* takes, the timeout argument (NoNum when none is passed), and what the
\* audit callback does ("none" when no callback is set).
ToolCall(tool_id, granted, validate, outcome, duration, timeout, cb) ==
    [tool_id |-> tool_id, granted |-> granted, validate |-> validate,
     outcome |-> outcome, duration |-> duration, timeout |-> timeout, cb |-> cb]

\* The record of one execute call: what was asked, what the tool declares,
\* the timeout the execute ran under, whether the tool's execute was invoked
\* and whether inside the sandbox path, what was passed to record_call,
\* whether the call raised to its caller, and the ToolResult.
CallRecord(input, declared, sandbox_required, timeout, invoked, sandboxed, recorded, raised, result) ==
    [input |-> input, tool_id |-> input.tool_id, granted |-> input.granted,
     declared |-> declared, sandbox_required |-> sandbox_required,
     timeout |-> timeout, invoked |-> invoked, sandboxed |-> sandboxed,
     recorded |-> recorded, raised |-> raised, result |-> result]

\* ToolExecutor._audit, a mutant: what the callback raises is not caught.
AuditPropagates(cb, data) ==
    [log |-> IF cb = "ok" THEN <<data>> ELSE <<>>, raised |-> cb = "raise"]

\* ToolExecutor._audit: the data goes to the callback when one is set; what
\* the callback raises is logged and dropped.
executor_audit(cb, data) ==
    [log |-> IF cb = "ok" THEN <<data>> ELSE <<>>, raised |-> FALSE]

\* timeout = timeout or metadata.input_schema.get("timeout", default_timeout)
effective_timeout(timeout, schema_timeout) ==
    IF timeout # NoNum /\ timeout # 0 THEN timeout
    ELSE IF schema_timeout # NoNum THEN schema_timeout
    ELSE default_timeout

\* asyncio.wait_for on a tool that yields to cancellation: the TimeoutError
\* when the tool takes longer than the timeout, else what the tool does.
wait_for(outcome, duration, timeout) ==
    IF duration > timeout THEN "timeout" ELSE outcome

\* What one execute call leaves behind: its record, the registry's
\* statistics and the audit data that reached the callback.
Executed(call, stats, sent) == [call |-> call, stats |-> stats, audit |-> sent]

\* ToolExecutor.execute(tool_id, context, params, timeout) on a registry with
\* the given metadata and statistics.
execute(metas, stats, sandbox, c) ==
    IF get_tool(metas, c.tool_id) = None
    THEN Executed(CallRecord(c, {}, FALSE, NoNum, FALSE, FALSE, None, FALSE,
                             ToolResult(FALSE, "tool_not_found", {})),
                  stats, <<>>)
    ELSE
    LET meta == metas[c.tool_id]
        declared == meta.permissions
        Ended(timeout, invoked, sandboxed, recorded, raised, result) ==
            CallRecord(c, declared, meta.sandbox_required, timeout, invoked,
                       sandboxed, recorded, raised,
                       IF raised THEN ToolResult(FALSE, "raised", {}) ELSE result)
    IN
    IF ~check_permission(declared, c.granted)
    THEN LET a == executor_audit(c.cb,
                      AuditData(c.tool_id, FALSE, "permission_denied"))
         IN  Executed(Ended(NoNum, FALSE, FALSE, None, a.raised,
                            ToolResult(FALSE, "permission_denied",
                                       declared \ c.granted)),
                      stats, a.log)
    ELSE IF c.validate = "raise"
    THEN Executed(Ended(NoNum, FALSE, FALSE, None, TRUE,
                        ToolResult(FALSE, "raised", {})), stats, <<>>)
    ELSE IF c.validate = "invalid"
    THEN Executed(Ended(NoNum, FALSE, FALSE, None, FALSE,
                        ToolResult(FALSE, "validation_failed", {})), stats, <<>>)
    ELSE
    LET timeout == effective_timeout(c.timeout, meta.schema_timeout)
        sandboxed == sandbox /\ meta.sandbox_required
        run == wait_for(c.outcome, c.duration, timeout)
        elapsed_ms == 1000 * (IF run = "timeout" THEN timeout ELSE c.duration)
        \* an except branch: record the error, audit, build the failing result
        Handler(st, sent, error) ==
            LET a == executor_audit(c.cb, AuditData(c.tool_id, FALSE, error))
            IN  Executed(Ended(timeout, TRUE, sandboxed, "error", a.raised,
                               ToolResult(FALSE, error, {})),
                         record_call(st, c.tool_id, FALSE, elapsed_ms),
                         sent \o a.log)
    IN
    IF run = "timeout" THEN Handler(stats, <<>>, "timeout")
    ELSE IF run = "raise" THEN Handler(stats, <<>>, "exception")
    ELSE
    LET result == IF run = "ok" THEN ToolResult(TRUE, None, {})
                  ELSE ToolResult(FALSE, "tool_error", {})
        recorded == record_call(stats, c.tool_id, result.success, elapsed_ms)
        a == executor_audit(c.cb,
                 AuditData(c.tool_id, result.success, result.error))
    IN  IF a.raised THEN Handler(recorded, a.log, "exception")
        ELSE Executed(Ended(timeout, TRUE, sandboxed,
                            IF result.success THEN "success" ELSE "error",
                            FALSE, result),
                      recorded, a.log)

\* No execute call has been made yet.
NoCall ==
    CallRecord(ToolCall(None, {}, "valid", "ok", 0, NoNum, "none"), {}, FALSE,
               NoNum, FALSE, FALSE, None, FALSE, ToolResult(FALSE, None, {}))

\* ToolRegistry.__init__ and ToolExecutor.__init__ with its defaults
ToolFresh ==
    /\ tool_meta = <<>>
    /\ tool_stats = <<>>
    /\ enable_sandbox = TRUE
    /\ n_calls = 0
    /\ last_call = NoCall
    /\ tool_audit = <<>>

\* ToolExecutor.__init__ with either setting of enable_sandbox
ToolInit ==
    /\ tool_meta = <<>>
    /\ tool_stats = <<>>
    /\ enable_sandbox \in BOOLEAN
    /\ n_calls = 0
    /\ last_call = NoCall
    /\ tool_audit = <<>>

\* dict assignment d[key] = value
DictSet(d, key, value) ==
    [k \in DOMAIN d \cup {key} |-> IF k = key THEN value ELSE d[k]]

\* del d[key]
DictDel(d, key) == [k \in DOMAIN d \ {key} |-> d[k]]

\* ToolRegistry.register
register(tool_id, meta) ==
    /\ tool_meta' = DictSet(tool_meta, tool_id, meta)
    /\ tool_stats' = DictSet(tool_stats, tool_id,
           [call_count |-> 0, success_count |-> 0, error_count |-> 0,
            total_time_ms |-> 0])

\* ToolRegistry.unregister: the usage counters are kept
unregister(tool_id) ==
    /\ tool_meta' = IF tool_id \in DOMAIN tool_meta
                    THEN DictDel(tool_meta, tool_id) ELSE tool_meta
    /\ UNCHANGED tool_stats

\* The tools that get registered: any declared permissions with or without
\* the sandbox requirement, and one whose input_schema carries a timeout.
ToolMetas ==
    [permissions : SUBSET Permissions, sandbox_required : BOOLEAN,
     schema_timeout : {NoNum}]
    \cup { [permissions |-> {"database:read"}, sandbox_required |-> TRUE,
            schema_timeout |-> 60] }

\* The calls made: the permission cases, the validation cases, the timing
\* cases, the audit callback cases.
ToolCalls ==
    { ToolCall(tool_id, granted, "valid", "ok", 5, NoNum, "ok") :
        tool_id \in {"sql", "ghost"}, granted \in SUBSET Permissions }
    \cup { ToolCall("sql", Permissions, validate, "ok", 5, NoNum, "ok") :
             validate \in ValidateOutcomes }
    \cup { ToolCall("sql", Permissions, "valid", outcome, duration, timeout, "ok") :
             outcome \in {"ok", "raise"}, duration \in {5, 45},
             timeout \in {NoNum, 0, 10, 60} }
    \cup { ToolCall("sql", granted, "valid", outcome, 5, NoNum, cb) :
             granted \in {{}, Permissions}, outcome \in ExecuteOutcomes,
             cb \in {"none", "ok", "raise"} }

RegisterTool ==
    /\ \E meta \in ToolMetas : register("sql", meta)
    /\ UNCHANGED <<enable_sandbox, n_calls, last_call, tool_audit>>
    /\ UNCHANGED notTool

UnregisterTool ==
    /\ unregister("sql")
    /\ UNCHANGED <<enable_sandbox, n_calls, last_call, tool_audit>>
    /\ UNCHANGED notTool

\* A caller runs a tool through the executor.
ExecuteTool ==
    /\ n_calls < MaxCalls
    /\ n_calls' = n_calls + 1
    /\ \E c \in ToolCalls :
          \E out \in {execute(tool_meta, tool_stats, enable_sandbox, c)} :
             /\ last_call' = out.call
             /\ tool_stats' = out.stats
             /\ tool_audit' = out.audit
    /\ UNCHANGED <<tool_meta, enable_sandbox>>
    /\ UNCHANGED notTool

ToolNext == RegisterTool \/ UnregisterTool \/ ExecuteTool

\* ------------------------------------------------- registry under concurrency
\* The tasks that call the registry concurrently.
Tasks == 1 .. MaxTasks

\* asyncio.Lock.locked, a mutant: the lock never holds anybody back.
LockedNever(holder) == FALSE

\* asyncio.Lock.locked
locked(holder) == holder # NoId

\* The usage counters of a tool at registration.
ZeroStats ==
    [call_count |-> 0, success_count |-> 0, error_count |-> 0, total_time_ms |-> 0]

\* A task that is in no registry call.
IdleTask == [pc |-> "idle", success |-> FALSE, time_ms |-> 0, seen |-> ZeroStats]

\* Nothing counted yet.
NoCount == [ops |-> 0, calls |-> 0, ok |-> 0, time_ms |-> 0]

\* ToolRegistry.__init__, no task inside a call
RegistryFresh ==
    /\ reg_lock = NoId
    /\ reg_tasks = [t \in Tasks |-> IdleTask]
    /\ reg_count = NoCount

\* A task moves on; the steps of a task are the places where another task
\* may run in between (asyncio switches tasks at an await only, which is a
\* subset of these places).
Goto(t, pc) == reg_tasks' = [reg_tasks EXCEPT ![t].pc = pc]

\* A task calls record_call(tool_id, success, time_ms): the membership test
\* before the lock.
RegRecordCallBegin(t) ==
    /\ reg_tasks[t].pc = "idle"
    /\ reg_count.ops < MaxOps
    /\ reg_count' = [reg_count EXCEPT !.ops = @ + 1]
    /\ \E success \in BOOLEAN, time_ms \in {5, 7} :
          reg_tasks' = [reg_tasks EXCEPT ![t] =
              IF "sql" \notin DOMAIN tool_stats THEN IdleTask
              ELSE [pc |-> "record_acquire", success |-> success,
                    time_ms |-> time_ms, seen |-> ZeroStats]]
    /\ UNCHANGED <<tool_meta, tool_stats, reg_lock>>
    /\ UNCHANGED notRegistry

\* A task calls register or unregister.
RegBegin(t) ==
    /\ reg_tasks[t].pc = "idle"
    /\ reg_count.ops < MaxOps
    /\ reg_count' = [reg_count EXCEPT !.ops = @ + 1]
    /\ \E pc \in {"register_acquire", "unregister_acquire"} : Goto(t, pc)
    /\ UNCHANGED <<tool_meta, tool_stats, reg_lock>>
    /\ UNCHANGED notRegistry

\* async with self._lock: the task goes on once the lock is free.
RegAcquire(t) ==
    /\ reg_tasks[t].pc \in {"record_acquire", "register_acquire", "unregister_acquire"}
    /\ ~locked(reg_lock)
    /\ reg_lock' = t
    /\ Goto(t, CASE reg_tasks[t].pc = "record_acquire" -> "record_read"
                 [] reg_tasks[t].pc = "register_acquire" -> "register_body"
                 [] reg_tasks[t].pc = "unregister_acquire" -> "unregister_body")
    /\ UNCHANGED <<tool_meta, tool_stats, reg_count>>
    /\ UNCHANGED notRegistry

\* record_call inside the lock: the counters are read ...
RegRecordCallRead(t) ==
    /\ reg_tasks[t].pc = "record_read"
    /\ reg_tasks' = [reg_tasks EXCEPT ![t].pc = "record_write",
                                      ![t].seen = tool_stats["sql"]]
    /\ UNCHANGED <<tool_meta, tool_stats, reg_lock, reg_count>>
    /\ UNCHANGED notRegistry

\* ... and written back incremented; the lock is released and the call is
\* complete.
RegRecordCallWrite(t) ==
    /\ reg_tasks[t].pc = "record_write"
    /\ tool_stats' = record_call([tool_stats EXCEPT !["sql"] = reg_tasks[t].seen],
                                 "sql", reg_tasks[t].success, reg_tasks[t].time_ms)
    /\ reg_count' = [reg_count EXCEPT
                        !.calls = @ + 1,
                        !.ok = @ + (IF reg_tasks[t].success THEN 1 ELSE 0),
                        !.time_ms = @ + reg_tasks[t].time_ms]
    /\ reg_lock' = NoId
    /\ reg_tasks' = [reg_tasks EXCEPT ![t] = IdleTask]
    /\ UNCHANGED tool_meta
    /\ UNCHANGED notRegistry

\* register inside the lock: the tool's counters start again from zero.
RegRegister(t) ==
    /\ reg_tasks[t].pc = "register_body"
    /\ register("sql", [permissions |-> {}, sandbox_required |-> TRUE,
                        schema_timeout |-> NoNum])
    /\ reg_count' = [reg_count EXCEPT !.calls = 0, !.ok = 0, !.time_ms = 0]
    /\ reg_lock' = NoId
    /\ reg_tasks' = [reg_tasks EXCEPT ![t] = IdleTask]
    /\ UNCHANGED notRegistry

\* unregister inside the lock
RegUnregister(t) ==
    /\ reg_tasks[t].pc = "unregister_body"
    /\ unregister("sql")
    /\ reg_lock' = NoId
    /\ reg_tasks' = [reg_tasks EXCEPT ![t] = IdleTask]
    /\ UNCHANGED reg_count
    /\ UNCHANGED notRegistry

RegistryNext ==
    \E t \in Tasks :
        \/ RegRecordCallBegin(t)
        \/ RegBegin(t)
        \/ RegAcquire(t)
        \/ RegRecordCallRead(t)
        \/ RegRecordCallWrite(t)
        \/ RegRegister(t)
        \/ RegUnregister(t)

\* ------------------------------------------------------------ tool loader
\* The ids a manifest gives to its tools, by position.
ManifestIds == <<"t1", "t2", "t3">>

\* What loading one tool of a manifest does: it loads and its initialize
\* returns true; its initialize returns false; importing, instantiating or
\* initializing it raises; its initialize returns true and its metadata
\* property raises (the ToolMetadata it builds is invalid).
LoadOutcomes == {"ok", "init_false", "raise", "metadata_raise"}

\* The manifests: the tools they declare, in order.
Manifests == UNION {[1 .. n -> LoadOutcomes] : n \in 0 .. MaxTools}

\* The metadata of the tools the manifests declare.
LoadedMeta ==
    [permissions |-> {}, sandbox_required |-> TRUE, schema_timeout |-> NoNum]

\* ToolRegistry.register as called by the loader: self._tools[tool_id] is
\* set, then tool.metadata is read, then _metadata and _stats are set. A tool
\* that _tools has and _metadata has not is entered with metadata None.
RegisterLoaded(metas, stats, tool_id, outcome) ==
    IF outcome = "metadata_raise"
    THEN [metas |-> DictSet(metas, tool_id, None), stats |-> stats, raised |-> TRUE]
    ELSE [metas |-> DictSet(metas, tool_id, LoadedMeta),
          stats |-> DictSet(stats, tool_id, ZeroStats), raised |-> FALSE]

\* ToolLoader.load_from_directory, the loop over manifest["tools"] from the
\* i-th tool on.
RECURSIVE LoadFrom(_, _, _, _, _, _)
LoadFrom(manifest, i, metas, stats, loaded, loaded_tool_ids) ==
    IF i > Len(manifest)
    THEN [metas |-> metas, stats |-> stats, loaded |-> loaded,
          returned |-> loaded_tool_ids, raised |-> FALSE]
    ELSE LET tool_id == ManifestIds[i] IN
         IF manifest[i] \in {"raise", "init_false"}
         THEN LoadFrom(manifest, i + 1, metas, stats, loaded, loaded_tool_ids)
         ELSE LET r == RegisterLoaded(metas, stats, tool_id, manifest[i]) IN
              IF r.raised
              THEN LoadFrom(manifest, i + 1, r.metas, r.stats, loaded,
                            loaded_tool_ids)
              ELSE LoadFrom(manifest, i + 1, r.metas, r.stats,
                            loaded \cup {tool_id},
                            Append(loaded_tool_ids, tool_id))

\* ToolLoader.load_from_directory on a package whose manifest passes the
\* security and the dependency check
load_from_directory(manifest, metas, stats, loaded) ==
    LoadFrom(manifest, 1, metas, stats, loaded, <<>>)

\* ToolLoader.unload_tool, a mutant: the tool is taken out of the registry
\* before its cleanup runs.
UnloadUnregisterFirst(tool_id, cleanup, metas, loaded) ==
    IF tool_id \notin loaded
    THEN [metas |-> metas, loaded |-> loaded, result |-> FALSE, trace |-> <<>>,
          raised |-> FALSE]
    ELSE LET removed == IF tool_id \in DOMAIN metas THEN DictDel(metas, tool_id)
                        ELSE metas
         IN  IF cleanup = "raise"
             THEN [metas |-> removed, loaded |-> loaded, result |-> FALSE,
                   trace |-> <<"unregister", "cleanup">>, raised |-> FALSE]
             ELSE [metas |-> removed, loaded |-> loaded \ {tool_id},
                   result |-> TRUE,
                   trace |-> <<"unregister", "cleanup", "forget">>,
                   raised |-> FALSE]

\* ToolLoader.unload_tool(tool_id), the tool's cleanup returning or raising:
\* the registry, the loaded tools, the value returned, and the order of what
\* was done.
unload_tool(tool_id, cleanup, metas, loaded) ==
    IF tool_id \notin loaded
    THEN [metas |-> metas, loaded |-> loaded, result |-> FALSE, trace |-> <<>>,
          raised |-> FALSE]
    ELSE IF cleanup = "raise"
    THEN [metas |-> metas, loaded |-> loaded, result |-> FALSE,
          trace |-> <<"cleanup">>, raised |-> FALSE]
    ELSE [metas |-> IF tool_id \in DOMAIN metas THEN DictDel(metas, tool_id)
                    ELSE metas,
          loaded |-> loaded \ {tool_id}, result |-> TRUE,
          trace |-> <<"cleanup", "unregister", "forget">>, raised |-> FALSE]

\* No loader call has been made yet.
NoLoaderCall ==
    [op |-> None, loads |-> 0, manifest |-> <<>>, before |-> {}, returned |-> <<>>,
     tool_id |-> None, cleanup |-> None, result |-> FALSE, trace |-> <<>>,
     raised |-> FALSE]

\* ToolLoader.__init__
LoaderFresh ==
    /\ loader_loaded = {}
    /\ loader_call = NoLoaderCall

\* A caller loads a tool package.
LoaderLoad ==
    /\ loader_call.loads < MaxLoads
    /\ \E manifest \in Manifests :
          \E out \in {load_from_directory(manifest, tool_meta, tool_stats,
                                          loader_loaded)} :
             /\ tool_meta' = out.metas
             /\ tool_stats' = out.stats
             /\ loader_loaded' = out.loaded
             /\ loader_call' = [NoLoaderCall EXCEPT
                                   !.op = "load",
                                   !.loads = loader_call.loads + 1,
                                   !.manifest = manifest,
                                   !.before = DOMAIN tool_meta,
                                   !.returned = out.returned,
                                   !.raised = out.raised]
    /\ UNCHANGED notLoader

\* A caller unloads a tool.
LoaderUnload ==
    /\ \E i \in 1 .. MaxTools, cleanup \in {"ok", "raise"} :
          \E out \in {unload_tool(ManifestIds[i], cleanup, tool_meta,
                                  loader_loaded)} :
             /\ tool_meta' = out.metas
             /\ loader_loaded' = out.loaded
             /\ loader_call' = [NoLoaderCall EXCEPT
                                   !.op = "unload",
                                   !.loads = loader_call.loads,
                                   !.tool_id = ManifestIds[i],
                                   !.cleanup = cleanup,
                                   !.result = out.result,
                                   !.trace = out.trace,
                                   !.raised = out.raised]
    /\ UNCHANGED tool_stats
    /\ UNCHANGED notLoader

LoaderNext == LoaderLoad \/ LoaderUnload

\* ------------------------------------------------------------ security gate
\* SecurityPhase
ENTRY == 1
CONTENT == 2
BEHAVIOR == 3
EXECUTION == 4
SecurityPhases == {ENTRY, CONTENT, BEHAVIOR, EXECUTION}

\* Severity
Severities == {"low", "medium", "high", "critical"}

\* A registered SecurityCheck.  behaviour tells what check() does for a check
\* registered by the embedder: "pass", "fail" or "raise"; the built-in checks
\* ("builtin") decide from the context.
Check(check_id, phase, severity, enabled, behaviour) ==
    [check_id |-> check_id, phase |-> phase, severity |-> severity,
     enabled |-> enabled, behaviour |-> behaviour]

\* LayeredSecuritySystem._register_default_checks
DefaultChecks ==
    << Check("SEC-001", ENTRY, "critical", TRUE, "builtin"),
       Check("SEC-002", ENTRY, "critical", TRUE, "builtin"),
       Check("SEC-010", CONTENT, "high", TRUE, "builtin"),
       Check("SEC-020", CONTENT, "medium", TRUE, "builtin"),
       Check("SEC-040", BEHAVIOR, "critical", TRUE, "builtin"),
       Check("SEC-041", BEHAVIOR, "critical", TRUE, "builtin"),
       Check("SEC-030", EXECUTION, "critical", TRUE, "builtin"),
       Check("SEC-031", EXECUTION, "critical", TRUE, "builtin") >>

\* CheckResult; raised tells that the result stands for an exception.
CheckResult(check_id, passed, severity, phase, raised) ==
    [check_id |-> check_id, passed |-> passed, severity |-> severity,
     phase |-> phase, raised |-> raised]

\* Python truthiness of an optional string
Truthy(x) == x # None /\ x # ""

\* The check() of each built-in check on a context map: TRUE when it passes.
\* The regular-expression searches are represented by their outcome, which the
\* context carries: injection, dangerous, sql_injection, sql_write.
BuiltinPasses(check_id, ctx) ==
    CASE check_id = "SEC-001" -> Truthy(ctx.user_id) /\ Truthy(ctx.auth_token)
      [] check_id = "SEC-002" ->
            ctx.required_permissions \ ctx.granted_permissions = {}
      [] check_id = "SEC-010" -> ~ctx.injection
      [] check_id = "SEC-020" -> TRUE
      [] check_id = "SEC-040" ->
            ctx.tool_whitelist # {} /\ ctx.tool_name \in ctx.tool_whitelist
      [] check_id = "SEC-041" -> ~ctx.dangerous
      [] check_id = "SEC-030" -> ~ctx.sql_injection
      [] check_id = "SEC-031" -> ~ctx.sql_write

\* check.check(context), with an exception turned into the CRITICAL failing
\* result run_phase records for it.
Evaluate(check, phase, ctx) ==
    CASE check.behaviour = "builtin" ->
            CheckResult(check.check_id, BuiltinPasses(check.check_id, ctx),
                        check.severity, check.phase, FALSE)
      [] check.behaviour = "pass" ->
            CheckResult(check.check_id, TRUE, check.severity, check.phase, FALSE)
      [] check.behaviour = "fail" ->
            CheckResult(check.check_id, FALSE, check.severity, check.phase, FALSE)
      [] check.behaviour = "raise" ->
            CheckResult(check.check_id, FALSE, "critical", phase, TRUE)

\* The break conditions of run_phase after one result.
StopsPhase(ff, result) ==
    IF result.raised
    THEN ff
    ELSE ff /\ ~result.passed /\ result.severity \in {"critical", "high"}

\* LayeredSecuritySystem.run_phase: the loop over checks[i..] with the results so far
RECURSIVE RunPhaseFrom(_, _, _, _, _, _)
RunPhaseFrom(cs, ff, phase, ctx, i, results) ==
    IF i > Len(cs)
    THEN results
    ELSE IF cs[i].phase # phase \/ ~cs[i].enabled
         THEN RunPhaseFrom(cs, ff, phase, ctx, i + 1, results)
         ELSE LET result == Evaluate(cs[i], phase, ctx) IN
              IF StopsPhase(ff, result)
              THEN Append(results, result)
              ELSE RunPhaseFrom(cs, ff, phase, ctx, i + 1, Append(results, result))

run_phase(cs, ff, phase, ctx) == RunPhaseFrom(cs, ff, phase, ctx, 1, <<>>)

\* sum(1 for r in results if not r.passed and r.severity == severity)
FailedWith(results, severity) ==
    Cardinality({i \in 1 .. Len(results) :
                    ~results[i].passed /\ results[i].severity = severity})

\* run_all, a mutant: the loop never stops before the next phase.
RECURSIVE RunAllNoStop(_, _, _, _, _)
RunAllNoStop(cs, ff, ctx, phase, all_results) ==
    IF phase > EXECUTION
    THEN all_results
    ELSE RunAllNoStop(cs, ff, ctx, phase + 1,
                      all_results \o run_phase(cs, ff, phase, ctx))

\* LayeredSecuritySystem.run_all: the loop over the phases from phase on
RECURSIVE RunAllFrom(_, _, _, _, _)
RunAllFrom(cs, ff, ctx, phase, all_results) ==
    IF phase > EXECUTION
    THEN all_results
    ELSE LET results == run_phase(cs, ff, phase, ctx) IN
         IF ff /\ FailedWith(results, "critical") > 0
         THEN all_results \o results
         ELSE RunAllFrom(cs, ff, ctx, phase + 1, all_results \o results)

\* run_all, a mutant: failing HIGH results count as any other failure.
RiskLevelNoHigh(all_results) ==
    IF FailedWith(all_results, "critical") > 0 THEN "critical"
    ELSE IF \E i \in 1 .. Len(all_results) : ~all_results[i].passed THEN "medium"
    ELSE "low"

\* run_all: the overall risk level of the collected results
RiskLevel(all_results) ==
    IF FailedWith(all_results, "critical") > 0 THEN "critical"
    ELSE IF FailedWith(all_results, "high") > 0 THEN "high"
    ELSE IF \E i \in 1 .. Len(all_results) : ~all_results[i].passed THEN "medium"
    ELSE "low"

\* LayeredSecuritySystem.run_all: the SecurityReport
run_all(cs, ff, ctx) ==
    LET all_results == RunAllFrom(cs, ff, ctx, ENTRY, <<>>) IN
    [overall_passed |-> \A i \in 1 .. Len(all_results) : all_results[i].passed,
     results |-> all_results,
     risk_level |-> RiskLevel(all_results)]

\* A context map on which every built-in check passes.
GoodContext ==
    [user_id |-> "user-1", auth_token |-> "token",
     required_permissions |-> {"ai:use"}, granted_permissions |-> {"ai:use"},
     injection |-> FALSE, tool_name |-> "sql_query",
     tool_whitelist |-> {"sql_query"}, dangerous |-> FALSE,
     sql_injection |-> FALSE, sql_write |-> FALSE]

\* The context maps a caller hands to the gate: the good one, one defect in
\* each phase, and defects in several phases at once.
GateContexts ==
    { GoodContext,
      [GoodContext EXCEPT !.user_id = None],
      [GoodContext EXCEPT !.auth_token = None, !.granted_permissions = {}],
      [GoodContext EXCEPT !.granted_permissions = {}],
      [GoodContext EXCEPT !.injection = TRUE],
      [GoodContext EXCEPT !.tool_whitelist = {}, !.dangerous = TRUE],
      [GoodContext EXCEPT !.sql_write = TRUE, !.sql_injection = TRUE],
      [GoodContext EXCEPT !.injection = TRUE, !.sql_write = TRUE] }

\* The checks an embedder registers on top of the built-in ones.
CustomChecks ==
    { Check("CUSTOM", phase, severity, TRUE, behaviour) :
        phase \in {ENTRY, CONTENT}, severity \in {"low", "high"},
        behaviour \in {"pass", "fail", "raise"} }
    \cup { Check("CUSTOM", ENTRY, "high", FALSE, "fail") }

NoGateRun == [op |-> None, phase |-> 0, results |-> <<>>, risk_level |-> None]

\* LayeredSecuritySystem.__init__ with its default fail_fast
GateFresh ==
    /\ checks = DefaultChecks
    /\ fail_fast = TRUE
    /\ gate_run = NoGateRun

\* LayeredSecuritySystem.__init__ with either setting of fail_fast
GateInit ==
    /\ checks = DefaultChecks
    /\ fail_fast \in BOOLEAN
    /\ gate_run = NoGateRun

\* LayeredSecuritySystem.register: an embedder adds a check of its own.
GateRegister ==
    /\ Len(checks) < Len(DefaultChecks) + MaxCustomChecks
    /\ \E check \in CustomChecks : checks' = Append(checks, check)
    /\ UNCHANGED <<fail_fast, gate_run>>
    /\ UNCHANGED notGate

\* A caller runs one phase.
GateRunPhase ==
    /\ \E phase \in SecurityPhases, ctx \in GateContexts :
          \E results \in {run_phase(checks, fail_fast, phase, ctx)} :
             gate_run' = [op |-> "run_phase", phase |-> phase,
                          results |-> results, risk_level |-> None]
    /\ UNCHANGED <<checks, fail_fast>>
    /\ UNCHANGED notGate

\* A caller runs all phases.
GateRunAll ==
    /\ \E ctx \in GateContexts :
          \E report \in {run_all(checks, fail_fast, ctx)} :
             gate_run' = [op |-> "run_all", phase |-> 0, results |-> report.results,
                          risk_level |-> report.risk_level]
    /\ UNCHANGED <<checks, fail_fast>>
    /\ UNCHANGED notGate

\* ------------------------------------------------- SecureClaw checker
\* SecureClawChecker._register_all_checks: the checks in insertion order
ClawChecks ==
    << Check("SEC-001", ENTRY, "critical", TRUE, "builtin"),
       Check("SEC-002", ENTRY, "critical", TRUE, "builtin"),
       Check("SEC-003", ENTRY, "critical", TRUE, "builtin"),
       Check("SEC-004", ENTRY, "critical", TRUE, "builtin"),
       Check("SEC-018", CONTENT, "high", TRUE, "builtin"),
       Check("SEC-019", CONTENT, "high", TRUE, "builtin"),
       Check("SEC-028", CONTENT, "high", TRUE, "builtin"),
       Check("SEC-029", CONTENT, "critical", TRUE, "builtin"),
       Check("SEC-033", BEHAVIOR, "critical", TRUE, "builtin"),
       Check("SEC-034", BEHAVIOR, "critical", TRUE, "builtin"),
       Check("SEC-045", EXECUTION, "critical", TRUE, "builtin"),
       Check("SEC-046", EXECUTION, "critical", TRUE, "builtin") >>

\* What check.check(context) of each SecureClaw check does: "pass", "fail",
\* or "raise" when the value it searches is not a string.  The context tells
\* what its entries are like: content is "clean", "api_key", "credential" or
\* "nonstr"; prompt is "clean", "injection", "override" or "nonstr"; tool is
\* "listed", "unlisted", "dangerous" or "nonstr"; sql is "select", "write",
\* "injection" or "nonstr".
ClawOutcome(check_id, ctx) ==
    LET verdict(ok) == IF ok THEN "pass" ELSE "fail" IN
    CASE check_id = "SEC-001" -> verdict(ctx.authenticated)
      [] check_id = "SEC-002" -> verdict(ctx.authorized)
      [] check_id = "SEC-003" -> verdict(ctx.tenant_ok)
      [] check_id = "SEC-004" ->
            IF ctx.content = "nonstr" THEN "raise"
            ELSE verdict(ctx.content # "api_key")
      [] check_id = "SEC-018" ->
            IF ctx.prompt = "nonstr" THEN "raise"
            ELSE verdict(ctx.prompt # "injection")
      [] check_id = "SEC-019" ->
            IF ctx.prompt = "nonstr" THEN "raise"
            ELSE verdict(ctx.prompt # "override")
      [] check_id = "SEC-028" ->
            IF ctx.content = "nonstr" THEN "raise" ELSE "pass"
      [] check_id = "SEC-029" ->
            IF ctx.content = "nonstr" THEN "raise"
            ELSE verdict(ctx.content # "credential")
      [] check_id = "SEC-033" -> verdict(ctx.tool \in {"listed", "dangerous"})
      [] check_id = "SEC-034" ->
            IF ctx.tool = "nonstr" THEN "raise"
            ELSE verdict(ctx.tool # "dangerous")
      [] check_id = "SEC-045" ->
            IF ctx.sql = "nonstr" THEN "raise" ELSE verdict(ctx.sql # "write")
      [] check_id = "SEC-046" ->
            IF ctx.sql = "nonstr" THEN "raise" ELSE verdict(ctx.sql # "injection")

\* SecureClawChecker.run_phase, the body of the loop for one check: the
\* result keeps the severity the check declares, also after an exception.
ClawEvaluate(check, phase, ctx) ==
    LET outcome == ClawOutcome(check.check_id, ctx) IN
    CheckResult(check.check_id, outcome = "pass", check.severity, phase,
                outcome = "raise")

\* SecureClawChecker.run_phase: the loop over checks[i..] with the results so far
RECURSIVE ClawRunPhaseFrom(_, _, _, _, _, _)
ClawRunPhaseFrom(cs, phase, ctx, ff, i, results) ==
    IF i > Len(cs)
    THEN results
    ELSE IF cs[i].phase # phase \/ ~cs[i].enabled
         THEN ClawRunPhaseFrom(cs, phase, ctx, ff, i + 1, results)
         ELSE LET result == ClawEvaluate(cs[i], phase, ctx) IN
              IF ff /\ ~result.passed /\ result.severity \in {"critical", "high"}
              THEN Append(results, result)
              ELSE ClawRunPhaseFrom(cs, phase, ctx, ff, i + 1,
                                    Append(results, result))

claw_run_phase(cs, phase, ctx, ff) == ClawRunPhaseFrom(cs, phase, ctx, ff, 1, <<>>)

\* A context on which every SecureClaw check passes.
ClawGoodContext ==
    [authenticated |-> TRUE, authorized |-> TRUE, tenant_ok |-> TRUE,
     content |-> "clean", prompt |-> "clean", tool |-> "listed", sql |-> "select"]

\* The contexts handed to the SecureClaw checker.
ClawContexts ==
    { ClawGoodContext,
      [ClawGoodContext EXCEPT !.authenticated = FALSE],
      [ClawGoodContext EXCEPT !.prompt = "injection", !.content = "credential"],
      [ClawGoodContext EXCEPT !.prompt = "nonstr"],
      [ClawGoodContext EXCEPT !.content = "nonstr", !.tool = "dangerous"],
      [ClawGoodContext EXCEPT !.sql = "nonstr"],
      [ClawGoodContext EXCEPT !.sql = "write", !.tool = "unlisted"] }

\* A caller runs one phase of the SecureClaw checker. The checker is an
\* object of its own with a fixed set of checks: what it returns is the same
\* whatever has been registered with the layered system, so it is run beside
\* the layered system's default configuration only.
GateClawRunPhase ==
    /\ checks = DefaultChecks
    /\ \E phase \in SecurityPhases, ctx \in ClawContexts, ff \in BOOLEAN :
          \E results \in {claw_run_phase(ClawChecks, phase, ctx, ff)} :
             gate_run' = [op |-> "claw_run_phase", phase |-> phase,
                          results |-> results, risk_level |-> None]
    /\ UNCHANGED <<checks, fail_fast>>
    /\ UNCHANGED notGate

GateNext == GateRegister \/ GateRunPhase \/ GateRunAll \/ GateClawRunPhase

\* ------------------------------------------------------------ SQL strings
\* A string is the sequence of its characters.
LowerLetters ==
    <<"a", "b", "c", "d", "e", "f", "g", "h", "i", "j", "k", "l", "m", "n", "o", "p", "q", "r", "s", "t", "u", "v", "w", "x", "y", "z">>
UpperLetters ==
    <<"A", "B", "C", "D", "E", "F", "G", "H", "I", "J", "K", "L", "M", "N", "O", "P", "Q", "R", "S", "T", "U", "V", "W", "X", "Y", "Z">>

\* str.upper, a mutant: the string is left as it is.
UpperUnchanged(str) == str

\* str.upper
upper(str) ==
    [i \in 1 .. Len(str) |->
        IF \E k \in 1 .. Len(LowerLetters) : str[i] = LowerLetters[k]
        THEN UpperLetters[CHOOSE k \in 1 .. Len(LowerLetters) : str[i] = LowerLetters[k]]
        ELSE str[i]]

\* str.lower
lower(str) ==
    [i \in 1 .. Len(str) |->
        IF \E k \in 1 .. Len(UpperLetters) : str[i] = UpperLetters[k]
        THEN LowerLetters[CHOOSE k \in 1 .. Len(UpperLetters) : str[i] = UpperLetters[k]]
        ELSE str[i]]

\* str.strip: leading and trailing blanks removed
RECURSIVE strip(_)
strip(str) ==
    IF Len(str) = 0 THEN str
    ELSE IF str[1] = " " THEN strip(Tail(str))
    ELSE IF str[Len(str)] = " " THEN strip(SubSeq(str, 1, Len(str) - 1))
    ELSE str

\* str.startswith
startswith(str, prefix) ==
    Len(prefix) <= Len(str) /\ SubSeq(str, 1, Len(prefix)) = prefix

\* sub in str
contains(str, sub) ==
    \E i \in 1 .. Len(str) - Len(sub) + 1 : SubSeq(str, i, i + Len(sub) - 1) = sub

\* SQLReadOnlyCheck.WRITE_KEYWORDS (both gates)
WRITE_KEYWORDS ==
    { <<"I", "N", "S", "E", "R", "T">>,
      <<"U", "P", "D", "A", "T", "E">>,
      <<"D", "E", "L", "E", "T", "E">>,
      <<"D", "R", "O", "P">>,
      <<"C", "R", "E", "A", "T", "E">>,
      <<"A", "L", "T", "E", "R">>,
      <<"T", "R", "U", "N", "C", "A", "T", "E">>,
      <<"G", "R", "A", "N", "T">>,
      <<"R", "E", "V", "O", "K", "E">> }

\* SQLQueryRunner.WRITE_KEYWORDS
RunnerWriteKeywords ==
    { <<"i", "n", "s", "e", "r", "t">>,
      <<"u", "p", "d", "a", "t", "e">>,
      <<"d", "e", "l", "e", "t", "e">>,
      <<"d", "r", "o", "p">>,
      <<"c", "r", "e", "a", "t", "e">>,
      <<"a", "l", "t", "e", "r">>,
      <<"t", "r", "u", "n", "c", "a", "t", "e">>,
      <<"g", "r", "a", "n", "t">>,
      <<"r", "e", "v", "o", "k", "e">>,
      <<"m", "e", "r", "g", "e">> }

SelectWord == <<"S", "E", "L", "E", "C", "T">>

\* SQLReadOnlyCheck.check of both gates, on context["sql"]: TRUE when it passes
sql_readonly_check(sql) ==
    \A keyword \in WRITE_KEYWORDS : ~contains(upper(sql), keyword)

\* SQLQueryRunner._is_readonly, a mutant: the keyword scan is left out.
IsReadonlyPrefixOnly(query) == startswith(strip(upper(query)), SelectWord)

\* SQLQueryRunner._is_readonly
is_readonly(query) ==
    /\ startswith(strip(upper(query)), SelectWord)
    /\ \A keyword \in RunnerWriteKeywords : ~contains(lower(query), keyword)

\* SQLQueryRunner.execute: rejected (ValueError) before anything is run, or
\* the query is run and its data returned.
runner_execute(query) ==
    IF ~is_readonly(query)
    THEN [status |-> "rejected", executed |-> FALSE]
    ELSE [status |-> "data", executed |-> TRUE]

\* The pieces the SQL strings are put together from.
Fragments ==
    { <<"S", "E", "L", "E", "C", "T">>,
      <<"s", "e", "l", "e", "c", "t">>,
      <<" ">>,
      <<"x">>,
      <<"d", "R", "o", "P">>,
      <<"u", "p">>,
      <<"d", "a", "t", "e">>,
      <<"m", "e", "r", "g", "e">>,
      <<"I", "N", "S", "E", "R", "T">> }

NotRun == [status |-> None, executed |-> FALSE]

\* No SQL string has been handled yet.
SqlFresh ==
    /\ sql_query = <<>>
    /\ sql_check = <<>>
    /\ sql_run = NotRun

\* The SQL strings of at most n pieces.
RECURSIVE SqlStrings(_)
SqlStrings(n) ==
    IF n = 0 THEN { <<>> }
    ELSE LET shorter == SqlStrings(n - 1)
         IN  shorter \cup { str \o f : str \in shorter, f \in Fragments }

\* A caller has put a SQL string together; nothing has looked at it yet.
SqlInit ==
    /\ sql_query \in SqlStrings(MaxFragments)
    /\ sql_check = <<>>
    /\ sql_run = NotRun

\* The read-only checks of both gates look at the string: SEC-031 of
\* LayeredSecuritySystem, SEC-045 of SecureClawChecker.
SqlReadOnlyCheck ==
    /\ sql_check = <<>>
    /\ sql_check' =
          << CheckResult("SEC-031", sql_readonly_check(sql_query), "critical",
                         EXECUTION, FALSE),
             CheckResult("SEC-045", sql_readonly_check(sql_query), "critical",
                         EXECUTION, FALSE) >>
    /\ UNCHANGED <<sql_query, sql_run>>
    /\ UNCHANGED notSql

\* The overwriter hands the string to its SQL runner, whether or not a
\* check looked at it before.
SqlRunnerExecute ==
    /\ sql_run = NotRun
    /\ sql_run' = runner_execute(sql_query)
    /\ UNCHANGED <<sql_query, sql_check>>
    /\ UNCHANGED notSql

SqlNext == SqlReadOnlyCheck \/ SqlRunnerExecute

\* ------------------------------------------------------------ mode engine
\* Scores are in hundredths: 80 is 0.8.
\* DynamicModeEngine.__init__: local_threshold, cloud_threshold
local_threshold == 80
cloud_threshold == 30

Max(S) == CHOOSE x \in S : \A y \in S : y <= x
Min2(x, y) == IF x <= y THEN x ELSE y

\* SensitivityAnalyzer.analyze without context adjustment: matched is the
\* sequence of the scores of the rules that matched the content.
analyze(matched) ==
    IF Len(matched) > 0
    THEN Min2(Max(Range(matched)) + Min2(Len(matched) * 5, 15), 100)
    ELSE 10

ModeDecision(mode, confidence, sensitivity_score, requires_confirmation) ==
    [mode |-> mode, confidence |-> confidence,
     sensitivity_score |-> sensitivity_score,
     requires_confirmation |-> requires_confirmation]

\* DynamicModeEngine._make_decision
make_decision(score) ==
    IF score >= local_threshold
    THEN ModeDecision("local_only", 95, score, TRUE)
    ELSE IF score <= cloud_threshold
         THEN ModeDecision("cloud_sandbox", 85, score, FALSE)
         ELSE ModeDecision("hybrid", 80, score, score > 50)

ExecutionModes == {"local_only", "hybrid", "cloud_sandbox"}

\* ------------------------------------------------------------ overwriter
\* A template is a sequence of tokens: literal text, or a placeholder
\* "{{key}}".  NonString is an executor output that is not a string.
NonString == <<"<not a str>">>
PlaceholderKey(token) ==
    CASE token = "{{user_id}}" -> "user_id"
      [] token = "{{user.name}}" -> "user.name"
      [] token = "{{name}}" -> "name"
      [] token = "{{city}}" -> "city"
      [] token = "${city}" -> "city"
      [] token = "{{user.balance}}" -> "user.balance"
      [] token = "{{user.level}}" -> "user.level"
      [] token = "$user" -> "user"
      [] token = "$user.name" -> "user.name"
      [] OTHER -> None

\* ZeroHallucinationOverwriter._overwrite_single with no rule registered:
\* the value comes from the context, or the placeholder fails.
OverwriteSingle(token, context) ==
    IF PlaceholderKey(token) \in DOMAIN context
    THEN [success |-> TRUE, final_value |-> context[PlaceholderKey(token)]]
    ELSE [success |-> FALSE, final_value |-> None]

\* ZeroHallucinationOverwriter.overwrite with no rule registered
overwrite(template, context) ==
    LET places == {i \in 1 .. Len(template) : PlaceholderKey(template[i]) # None}
        failed == {i \in places : ~OverwriteSingle(template[i], context).success}
    IN  [final_output |->
             [i \in 1 .. Len(template) |->
                 IF i \in places \ failed
                 THEN OverwriteSingle(template[i], context).final_value
                 ELSE template[i]],
         success |-> failed = {},
         total |-> Cardinality(places)]

\* ------------------------------------------------------------ orchestrator
Requests == {"req-1"}

NoDecision == ModeDecision(None, NoNum, NoNum, FALSE)

\* ExecutionResult
ExecutionResult(success, mode, decision, output, error, error_stage, timings) ==
    [success |-> success, mode |-> mode, mode_decision |-> decision,
     output |-> output, error |-> error, error_stage |-> error_stage,
     stage_timings |-> timings]

NoResult == ExecutionResult(FALSE, None, NoDecision, <<>>, None, None, {})

\* One request: the ExecutionContext (user_id, granted_permissions, stage),
\* the arguments and locals of execute that outlive an await, what the call
\* did (trace: the stages assigned; fault: where an exception was raised;
\* executor_invoked, overwriter_invoked) and the returned result.
IdleRequest ==
    [pc |-> "idle", request_id |-> "req-1", stage |-> "init", user_id |-> None,
     injection |-> FALSE,
     granted_permissions |-> {}, skip_security |-> FALSE,
     skip_overwrite |-> FALSE, decision |-> NoDecision, risk_level |-> None,
     had_executor |-> FALSE, timings |-> {}, trace |-> <<>>, fault |-> None,
     executor_invoked |-> FALSE, overwriter_invoked |-> FALSE,
     audits_before |-> 0, result |-> NoResult]

\* SoulCore._get_required_permissions
get_required_permissions(mode) ==
    {"ai:use"} \cup (IF mode = "cloud_sandbox" THEN {"ai:cloud"} ELSE {})
               \cup (IF mode = "local_only" THEN {"ai:local"} ELSE {})

\* SoulCore._update_stats
update_stats(stats, success) ==
    [total_executions |-> stats.total_executions + 1,
     successful |-> stats.successful + (IF success THEN 1 ELSE 0),
     failed |-> stats.failed + (IF success THEN 0 ELSE 1)]

\* SoulCore._audit: the ledger after the call (kw: decision, reason, confidence)
audit(st, rec, event_type, action, success, level, kw) ==
    IF ~enable_audit
    THEN st
    ELSE create_entry(st, event_type, action, "text", "sess-1", rec.request_id, level,
                      [user_id |-> rec.user_id, tenant_id |-> None,
                       decision |-> kw.decision, reason |-> kw.reason,
                       confidence |-> kw.confidence, success |-> success,
                       duration_ms |-> NoNum],
                      Len(st.entries))

NoKw == [decision |-> None, reason |-> None, confidence |-> NoNum]

\* A mutant of the stage assignment: the security stage and the executing
\* stage change places.
SetStageSwapped(rec, stage) ==
    LET to == CASE stage = "security_check" -> "executing"
                [] stage = "executing" -> "security_check"
                [] OTHER -> stage
    IN  [rec EXCEPT !.stage = to, !.trace = Append(@, to)]

\* context.stage = stage
SetStage(rec, stage) ==
    [rec EXCEPT !.stage = stage, !.trace = Append(@, stage)]

\* A mutant of the except branch: no failure entry is written.
ExceptNoAudit(rec, st, stats, fault) ==
    LET mode == IF rec.decision = NoDecision THEN "hybrid" ELSE rec.decision.mode
    IN  [rec |-> [rec EXCEPT !.pc = "returned", !.fault = fault,
                     !.result = ExecutionResult(FALSE, mode, rec.decision, <<>>,
                                    "exception", rec.stage, rec.timings)],
         st |-> st,
         stats |-> update_stats(stats, FALSE)]

\* SoulCore.execute, the except branch: an exception raised by fault
Except(rec, st, stats, fault) ==
    LET mode == IF rec.decision = NoDecision THEN "hybrid" ELSE rec.decision.mode
    IN  [rec |-> [rec EXCEPT !.pc = "returned", !.fault = fault,
                     !.result = ExecutionResult(FALSE, mode, rec.decision, <<>>,
                                    "exception", rec.stage, rec.timings)],
         st |-> audit(st, rec, "execution_end", "execution_failed", FALSE,
                      "error", NoKw),
         stats |-> update_stats(stats, FALSE)]

\* A mutant of the denial test: only a high risk level is refused.
DeniesHigh(risk_level) == risk_level = "high"

\* SoulCore.execute: the test after the security check
Denies(risk_level) == risk_level = "critical"

\* SoulCore.execute from the executor lookup to the await of the executor.
BeginExecuting(rec0, st, stats) ==
    LET rec == SetStage(rec0, "executing") IN
    IF rec.decision.mode \notin executors
    THEN Except(rec, st, stats, "no_executor")
    ELSE [rec |-> [rec EXCEPT !.pc = "executor"],
          st |-> audit(st, rec, "execution_start", "execution_start", TRUE,
                       "info", NoKw),
          stats |-> stats]

\* SoulCore.execute from the security stage on, decision made.
BeginSecurity(rec0, st0, stats) ==
    LET rec == SetStage(rec0, "security_check") IN
    IF rec.skip_security
    THEN BeginExecuting(rec, st0, stats)
    ELSE LET report == run_all(checks, fail_fast,
                 [user_id |-> rec.user_id, auth_token |-> None,
                  required_permissions |-> get_required_permissions(rec.decision.mode),
                  granted_permissions |-> rec.granted_permissions,
                  injection |-> rec.injection, tool_name |-> None,
                  tool_whitelist |-> {}, dangerous |-> FALSE,
                  sql_injection |-> FALSE, sql_write |-> FALSE])
             rec1 == [rec EXCEPT !.risk_level = report.risk_level,
                                 !.timings = @ \cup {"security"}]
             st1 == audit(st0, rec1, "security_check", "security_check",
                          report.overall_passed, "info", NoKw)
         IN  IF Denies(report.risk_level)
             THEN [rec |-> [rec1 EXCEPT !.pc = "returned",
                              !.result = ExecutionResult(FALSE, rec1.decision.mode,
                                             rec1.decision, <<>>, "denied",
                                             "security_check", rec1.timings)],
                   st |-> st1, stats |-> stats]
             ELSE BeginExecuting(rec1, st1, stats)

\* SoulCore.execute from its start to its first await or return.
\* hook: what the registered decision hooks do ("none": no hook decides).
Begin(rec0, st, stats, matched, hook) ==
    LET rec == SetStage(rec0, "analyzing") IN
    IF hook = "raise"
    THEN Except(rec, st, stats, "decide")
    ELSE LET decision == make_decision(analyze(matched))
             rec1 == [rec EXCEPT !.decision = decision,
                                 !.had_executor = decision.mode \in executors,
                                 !.timings = @ \cup {"analyze"}]
             st1 == audit(st, rec1, "mode_decision", "mode_decision", TRUE, "info",
                          [decision |-> decision.mode, reason |-> "reason",
                           confidence |-> decision.confidence])
         IN  BeginSecurity(rec1, st1, stats)

\* SoulCore.execute after the executor returned raw_output.
AfterExecutor(rec0, st0, stats, raw_output) ==
    LET rec1 == [rec0 EXCEPT !.timings = @ \cup {"execute"}]
        st1 == audit(st0, rec1, "execution_end", "execution_end", TRUE, "info", NoKw)
        rec2 == SetStage(rec1, "overwriting")
        done(rec, st, output) ==
            LET rec3 == SetStage(rec, "completed") IN
            [rec |-> [rec3 EXCEPT !.pc = "returned",
                         !.result = ExecutionResult(TRUE, rec3.decision.mode,
                                        rec3.decision, output, None, None,
                                        rec3.timings)],
             st |-> st, stats |-> update_stats(stats, TRUE)]
    IN  IF rec2.skip_overwrite
        THEN done(rec2, st1, raw_output)
        ELSE LET rec3 == [rec2 EXCEPT !.overwriter_invoked = TRUE] IN
             IF raw_output = NonString
             THEN Except(rec3, st1, stats, "overwriter")
             ELSE LET ow == overwrite(raw_output,
                                [k \in {"user_id", "request_id"} |->
                                    IF k = "user_id" THEN rec3.user_id
                                    ELSE rec3.request_id])
                      rec4 == [rec3 EXCEPT !.timings = @ \cup {"overwrite"}]
                  IN  done(rec4,
                           audit(st1, rec4, "data_overwrite", "data_overwrite",
                                 ow.success, "info", NoKw),
                           ow.final_output)

\* What the request contents are to the analyzer and to the injection check:
\* the scores of the sensitivity rules that match, and whether an injection
\* pattern matches.
SoulContents ==
    { [matched |-> <<>>, injection |-> FALSE],
      [matched |-> <<>>, injection |-> TRUE],
      [matched |-> <<50>>, injection |-> FALSE],
      [matched |-> <<95, 85>>, injection |-> FALSE] }

SoulGrants == { {}, {"ai:use", "ai:cloud", "ai:local"} }

\* The calls of execute: every request under every flag combination with no
\* decision hook, and one request under every flag combination with a
\* decision hook that raises (decide fails before the request is looked at).
SoulCalls ==
    [user_id : {None, "user-1"}, content : SoulContents, granted : SoulGrants,
     skip_security : BOOLEAN, skip_overwrite : BOOLEAN, hook : {"none"}]
    \cup
    [user_id : {"user-1"}, content : {[matched |-> <<>>, injection |-> FALSE]},
     granted : {{}}, skip_security : BOOLEAN, skip_overwrite : BOOLEAN,
     hook : {"raise"}]

\* What a registered executor returns: plain text, templates, not a string.
ExecutorOutputs ==
    { <<"text">>, <<"{{user.name}}", "{{user_id}}">>, NonString }

\* SoulCore.__init__ with either setting of enable_audit
SoulInit ==
    /\ enable_audit \in BOOLEAN
    /\ executors = {}
    /\ soul_stats = [total_executions |-> 0, successful |-> 0, failed |-> 0]
    /\ n_runs = 0
    /\ req = [r \in Requests |-> IdleRequest]

\* SoulCore.__init__ with its defaults
SoulFresh ==
    /\ enable_audit = TRUE
    /\ executors = {}
    /\ soul_stats = [total_executions |-> 0, successful |-> 0, failed |-> 0]
    /\ n_runs = 0
    /\ req = [r \in Requests |-> IdleRequest]

\* The checks with some of them switched off (SecurityCheck.enabled).
WithDisabled(cs, ids) ==
    [i \in 1 .. Len(cs) |->
        IF cs[i].check_id \in ids THEN [cs[i] EXCEPT !.enabled = FALSE] ELSE cs[i]]

\* The gate inside SoulCore: as constructed, or with the two checks whose
\* inputs (auth_token, tool_whitelist) execute never supplies switched off.
SoulGateInit ==
    /\ checks \in {DefaultChecks, WithDisabled(DefaultChecks, {"SEC-001", "SEC-040"})}
    /\ fail_fast \in BOOLEAN
    /\ gate_run = NoGateRun

\* SoulCore.register_executor
\* (registering a mode again replaces its callable, which changes nothing here)
RegisterExecutor ==
    /\ \E mode \in ExecutionModes \ executors : executors' = executors \cup {mode}
    /\ UNCHANGED <<enable_audit, soul_stats, n_runs, req>>
    /\ UNCHANGED auditVars
    /\ UNCHANGED notSoul

\* A caller starts execute(context, skip_security, skip_overwrite).
SoulBegin ==
    /\ n_runs < MaxRuns
    /\ \E r \in Requests :
          /\ req[r].pc \in {"idle", "returned"}
          /\ \E call \in SoulCalls :
                LET rec == [IdleRequest EXCEPT
                               !.user_id = call.user_id,
                               !.injection = call.content.injection,
                               !.granted_permissions = call.granted,
                               !.skip_security = call.skip_security,
                               !.skip_overwrite = call.skip_overwrite,
                               !.audits_before = Len(entries)]
                IN  \E out \in {Begin(rec, Chain, soul_stats, call.content.matched,
                                       call.hook)} :
                       /\ req' = [req EXCEPT ![r] = out.rec]
                       /\ SetChain(out.st)
                       /\ soul_stats' = out.stats
    /\ n_runs' = n_runs + 1
    /\ UNCHANGED <<enable_audit, executors>>
    /\ UNCHANGED notSoul

\* The awaited executor returns its output.
SoulExecutorReturns ==
    /\ \E r \in DOMAIN req :
          /\ req[r].pc = "executor"
          /\ \E raw_output \in ExecutorOutputs :
                \E out \in {AfterExecutor([req[r] EXCEPT !.executor_invoked = TRUE],
                                          Chain, soul_stats, raw_output)} :
                   /\ req' = [req EXCEPT ![r] = out.rec]
                   /\ SetChain(out.st)
                   /\ soul_stats' = out.stats
    /\ UNCHANGED <<enable_audit, executors, n_runs>>
    /\ UNCHANGED notSoul

\* The awaited executor raises.
SoulExecutorRaises ==
    /\ \E r \in DOMAIN req :
          /\ req[r].pc = "executor"
          /\ \E out \in {Except([req[r] EXCEPT !.executor_invoked = TRUE],
                                  Chain, soul_stats, "executor")} :
                /\ req' = [req EXCEPT ![r] = out.rec]
                /\ SetChain(out.st)
                /\ soul_stats' = out.stats
    /\ UNCHANGED <<enable_audit, executors, n_runs>>
    /\ UNCHANGED notSoul

SoulNext ==
    RegisterExecutor \/ SoulBegin \/ SoulExecutorReturns \/ SoulExecutorRaises


\* ------------------------------------------------ concurrent requests
\* The requests that run concurrently on one SoulCore, each an asyncio task
\* of its own: a task runs until its next await, there another one may run.
RequestIds == <<"req-1", "req-2", "req-3">>
ConcurrentRequests == {RequestIds[i] : i \in 1 .. MaxRequests}

\* What the concurrent requests ask for: one that goes through, one that the
\* security gate denies, one whose decision hook raises.
ConcurrentCalls ==
    { [user_id |-> "user-1", content |-> [matched |-> <<>>, injection |-> FALSE],
       granted |-> {"ai:use", "ai:cloud", "ai:local"}, hook |-> "none"],
      [user_id |-> "user-1", content |-> [matched |-> <<>>, injection |-> FALSE],
       granted |-> {}, hook |-> "none"],
      [user_id |-> "user-1", content |-> [matched |-> <<>>, injection |-> FALSE],
       granted |-> {}, hook |-> "raise"] }

\* SoulCore.__init__ with its defaults, requests not started yet
ConcurrentInit ==
    /\ enable_audit = TRUE
    /\ executors = {}
    /\ soul_stats = [total_executions |-> 0, successful |-> 0, failed |-> 0]
    /\ n_runs = 0
    /\ req = [r \in ConcurrentRequests |-> IdleRequest]

\* The executor of the mode the concurrent requests are decided to.
ConcurrentRegister ==
    /\ executors = {}
    /\ executors' = {"cloud_sandbox"}
    /\ UNCHANGED <<enable_audit, soul_stats, n_runs, req>>
    /\ UNCHANGED auditVars
    /\ UNCHANGED notSoul

\* A request starts execute(context) while others are at their await.
ConcurrentBegin ==
    /\ \E r \in DOMAIN req :
          /\ req[r].pc = "idle"
          /\ \E call \in ConcurrentCalls :
                LET rec == [IdleRequest EXCEPT
                               !.request_id = r,
                               !.user_id = call.user_id,
                               !.injection = call.content.injection,
                               !.granted_permissions = call.granted,
                               !.audits_before = Len(entries)]
                IN  \E out \in {Begin(rec, Chain, soul_stats, call.content.matched,
                                       call.hook)} :
                       /\ req' = [req EXCEPT ![r] = out.rec]
                       /\ SetChain(out.st)
                       /\ soul_stats' = out.stats
    /\ UNCHANGED <<enable_audit, executors, n_runs>>
    /\ UNCHANGED notSoul

ConcurrentNext ==
    \/ ConcurrentRegister
    \/ ConcurrentBegin
    \/ SoulExecutorReturns
    \/ SoulExecutorRaises


\* ------------------------------------------- mode engine: configuration
\* The thresholds are constructor arguments of DynamicModeEngine and of
\* ModeController; nothing checks that cloud_threshold < local_threshold.
Thresholds == {0, 30, 50, 80, 100}

\* The empty context: no flag is set (None and {} behave alike).
NoContext == [user_marked_sensitive |-> FALSE, is_admin |-> FALSE, environment |-> None]
Contexts == [user_marked_sensitive : BOOLEAN, is_admin : BOOLEAN, environment : {None, "production"}]

\* _adjust_by_context, a mutant: the products are not capped at 1.0.
AdjustUnclamped(score, context) ==
    LET marked == IF context.user_marked_sensitive THEN Max({score, 90000}) ELSE score
        admin == IF context.is_admin THEN (marked * 110) \div 100 ELSE marked
    IN  IF context.environment = "production" THEN (admin * 115) \div 100 ELSE admin

\* SensitivityAnalyzer._adjust_by_context; the score is in units of 0.00001,
\* so that the products by 1.1 and by 1.15 are exact.
adjust_by_context(score, context) ==
    LET marked == IF context.user_marked_sensitive THEN Max({score, 90000}) ELSE score
        admin == IF context.is_admin THEN Min2((marked * 110) \div 100, 100000) ELSE marked
    IN  IF context.environment = "production"
        THEN Min2((admin * 115) \div 100, 100000)
        ELSE admin

\* round(final_score, 2), back in hundredths: a value half way between two
\* hundredths goes to either, as the binary representation decides.
round2(x) ==
    IF x % 1000 = 500
    THEN {x \div 1000, x \div 1000 + 1}
    ELSE {(x + 500) \div 1000}

\* SensitivityAnalyzer.analyze with a context: the scores it can return
analyze_scores(matched, context) ==
    round2(adjust_by_context(analyze(matched) * 1000, context))

\* A content is known by the scores of the rules that match it.
RuleScores == {0, 25, 45, 75, 95, 100}
MatchedRules == UNION { [1 .. n -> RuleScores] : n \in 0 .. MaxMatched }

\* hash(content) % 10000: a fixed function of the content, not injective
ContentHash(content) ==
    IF content = <<>> THEN 0 ELSE (content[1] * 97 + Len(content)) % 10000

\* A decision hook either returns None or a decision of its own.
HookKinds == {"null", "decides"}
HookResult(hook, score) ==
    IF hook = "null" THEN NoDecision ELSE ModeDecision("hybrid", 70, score, FALSE)

Engine(local, cloud, by_hash, by_user, hooks) ==
    [local_threshold |-> local, cloud_threshold |-> cloud,
     user_overrides |-> [by_hash |-> by_hash, by_user |-> by_user],
     decision_hooks |-> hooks]

\* _make_decision, a mutant: the cloud threshold is looked at first.
MakeDecisionCloudFirst(engine, score) ==
    IF score <= engine.cloud_threshold
    THEN ModeDecision("cloud_sandbox", 85, score, FALSE)
    ELSE IF score >= engine.local_threshold
         THEN ModeDecision("local_only", 95, score, TRUE)
         ELSE ModeDecision("hybrid", 80, score, score > 50)

\* _make_decision, a mutant: a score equal to cloud_threshold is not cloud.
MakeDecisionStrictCloud(engine, score) ==
    IF score >= engine.local_threshold
    THEN ModeDecision("local_only", 95, score, TRUE)
    ELSE IF score < engine.cloud_threshold
         THEN ModeDecision("cloud_sandbox", 85, score, FALSE)
         ELSE ModeDecision("hybrid", 80, score, score > 50)

\* DynamicModeEngine._make_decision with the configured thresholds
MakeDecision(engine, score) ==
    IF score >= engine.local_threshold
    THEN ModeDecision("local_only", 95, score, TRUE)
    ELSE IF score <= engine.cloud_threshold
         THEN ModeDecision("cloud_sandbox", 85, score, FALSE)
         ELSE ModeDecision("hybrid", 80, score, score > 50)

\* ModeController.decide_mode with no override set; its decision carries
\* no score.
decide_mode(engine, sensitivity_score) ==
    IF sensitivity_score >= engine.local_threshold
    THEN ModeDecision("local_only", 95, NoNum, TRUE)
    ELSE IF sensitivity_score <= engine.cloud_threshold
         THEN ModeDecision("cloud_sandbox", 85, NoNum, FALSE)
         ELSE ModeDecision("hybrid_shield", 80, NoNum, sensitivity_score > 50)

\* DynamicModeEngine._check_override: the dict's integer keys (content
\* fingerprints) are by_hash, its "user:<id>" keys are by_user.
check_override(engine, content, user_id) ==
    IF ContentHash(content) \in DOMAIN engine.user_overrides.by_hash
    THEN ModeDecision(engine.user_overrides.by_hash[ContentHash(content)], 100, 0, FALSE)
    ELSE IF user_id # None /\ user_id \in DOMAIN engine.user_overrides.by_user
         THEN ModeDecision(engine.user_overrides.by_user[user_id], 100, 0, FALSE)
         ELSE NoDecision

\* The hook loop of DynamicModeEngine.decide; trace lists what has been
\* called: 0 is the analyzer, i the i-th registered hook.
RECURSIVE RunHooks(_, _, _, _)
RunHooks(hooks, i, score, trace) ==
    IF i > Len(hooks)
    THEN [decision |-> NoDecision, trace |-> trace]
    ELSE IF HookResult(hooks[i], score) # NoDecision
         THEN [decision |-> HookResult(hooks[i], score), trace |-> Append(trace, i)]
         ELSE RunHooks(hooks, i + 1, score, Append(trace, i))

\* decide, a mutant: the overrides are not looked up.
DecideSkipsOverride(engine, content, user_id, score) ==
    LET hooked == RunHooks(engine.decision_hooks, 1, score, <<0>>)
    IN  IF hooked.decision # NoDecision
        THEN hooked
        ELSE [decision |-> MakeDecision(engine, score), trace |-> hooked.trace]

\* DynamicModeEngine.decide; score is what the analyzer returns if it runs.
decide(engine, content, user_id, score) ==
    LET override == check_override(engine, content, user_id)
        hooked == RunHooks(engine.decision_hooks, 1, score, <<0>>)
    IN  IF override # NoDecision
        THEN [decision |-> override, trace |-> <<>>]
        ELSE IF hooked.decision # NoDecision
             THEN hooked
             ELSE [decision |-> MakeDecision(engine, score), trace |-> hooked.trace]

ModeCall(op, content, user_id, context, score, decision, trace) ==
    [op |-> op, content |-> content, user_id |-> user_id, context |-> context,
     score |-> score, decision |-> decision, trace |-> trace]

NoModeCall == ModeCall(None, <<>>, None, NoContext, NoNum, NoDecision, <<>>)

\* DynamicModeEngine.__init__ and ModeController.__init__ with the defaults
ModeFresh ==
    /\ mode_engine = Engine(local_threshold, cloud_threshold, <<>>, <<>>, <<>>)
    /\ mode_call = NoModeCall

\* What decide is called with in the model.
DecideContents == {<<>>, <<25>>, <<45>>, <<75>>, <<95>>, <<25, 45>>}
DecideContexts == {NoContext, [NoContext EXCEPT !.environment = "production"]}
UserIds == {None, "u1", "u2"}
OverrideModes == {"local_only", "cloud_sandbox"}

\* DynamicModeEngine.set_override(key, mode)
ModeSetOverride ==
    /\ \E mode \in OverrideModes :
          \/ \E content \in {<<95>>} :
                mode_engine' =
                    [mode_engine EXCEPT !.user_overrides.by_hash =
                        DictSet(@, ContentHash(content), mode)]
          \/ \E user_id \in {"u1"} :
                mode_engine' =
                    [mode_engine EXCEPT !.user_overrides.by_user =
                        DictSet(@, user_id, mode)]
    /\ UNCHANGED mode_call
    /\ UNCHANGED notMode

\* DynamicModeEngine.add_decision_hook(hook)
ModeAddHook ==
    /\ Len(mode_engine.decision_hooks) < MaxHooks
    /\ \E hook \in HookKinds :
          mode_engine' = [mode_engine EXCEPT !.decision_hooks = Append(@, hook)]
    /\ UNCHANGED mode_call
    /\ UNCHANGED notMode

\* DynamicModeEngine.decide(content, user_id, context)
ModeDecide ==
    /\ \E content \in DecideContents, user_id \in UserIds, context \in DecideContexts :
          \E score \in analyze_scores(content, context) :
             \E out \in {decide(mode_engine, content, user_id, score)} :
                mode_call' = ModeCall("decide", content, user_id, context, score,
                                      out.decision, out.trace)
    /\ UNCHANGED mode_engine
    /\ UNCHANGED notMode

ModeNext == ModeSetOverride \/ ModeAddHook \/ ModeDecide

\* Both classes are constructed from one configured pair of thresholds.
ThresholdsInit ==
    /\ \E local \in Thresholds, cloud \in Thresholds :
          mode_engine = Engine(local, cloud, <<>>, <<>>, <<>>)
    /\ mode_call = NoModeCall

\* ModeController.decide_mode(request, sensitivity_score)
ModeControllerDecide ==
    /\ \E sensitivity_score \in 0 .. 100 :
          mode_call' = ModeCall("decide_mode", <<>>, None, NoContext, sensitivity_score,
                                decide_mode(mode_engine, sensitivity_score), <<>>)
    /\ UNCHANGED mode_engine
    /\ UNCHANGED notMode

ThresholdsNext == ModeDecide \/ ModeControllerDecide

\* SensitivityAnalyzer.analyze(content, context) on its own
AnalyzerInit ==
    /\ mode_engine = Engine(local_threshold, cloud_threshold, <<>>, <<>>, <<>>)
    /\ \E content \in MatchedRules, context \in Contexts :
          mode_call = ModeCall(None, content, None, context, NoNum, NoDecision, <<>>)

ModeAnalyze ==
    /\ mode_call.op = None
    /\ \E score \in analyze_scores(mode_call.content, mode_call.context) :
          mode_call' = [mode_call EXCEPT !.op = "analyze", !.score = score]
    /\ UNCHANGED mode_engine
    /\ UNCHANGED notMode

AnalyzerNext == ModeAnalyze

\* ------------------------------------------------- overwriter with rules
\* PlaceholderParser.PLACEHOLDER_PATTERNS: which of the four patterns finds
\* the token, 0 if none does.
PlaceholderPattern(token) ==
    CASE PlaceholderKey(token) = None -> 0
      [] token = "${city}" -> 2
      [] token \in {"$user", "$user.name"} -> 3
      [] OTHER -> 1

\* PlaceholderParser.parse: pattern after pattern, each from left to right.
RECURSIVE FoundBy(_, _, _)
FoundBy(pattern, template, i) ==
    IF i > Len(template)
    THEN <<>>
    ELSE (IF PlaceholderPattern(template[i]) = pattern
          THEN <<[placeholder |-> template[i], key |-> PlaceholderKey(template[i])]>>
          ELSE <<>>) \o FoundBy(pattern, template, i + 1)

parse(template) ==
    FoundBy(1, template, 1) \o FoundBy(2, template, 1)
    \o FoundBy(3, template, 1) \o FoundBy(4, template, 1)

\* str.replace(placeholder, value) on a template of tokens: the text is
\* replaced wherever it occurs, also at the head of the one token of the
\* model that begins with another, "$user.name".
replace(template, placeholder, value) ==
    [i \in 1 .. Len(template) |->
        IF template[i] = placeholder
        THEN value
        ELSE IF template[i] = "$user.name" /\ placeholder = "$user"
             THEN value \o ".name"
             ELSE template[i]]

\* OverwriteResult
OverwriteResult(success, placeholder, final_value, data_source, error) ==
    [success |-> success, placeholder |-> placeholder, final_value |-> final_value,
     data_source |-> data_source, error |-> error]

\* OverwriteRule; the query templates of the model have no parameters, so
\* that _build_query returns them as they are.
OverwriteRule(data_source, query_template, fallback_value, validator, transform) ==
    [data_source |-> data_source, query_template |-> query_template,
     fallback_value |-> fallback_value, validator |-> validator, transform |-> transform]

SelectQuery == <<"S", "E", "L", "E", "C", "T", " ", "x">>
DropQuery == <<"d", "R", "o", "P", " ", "x">>

\* The rules of the model: one that resolves, and one for each way in which
\* resolution fails; each with and without a fallback value.
RulesWith(fallback_value) ==
    { OverwriteRule("user_db", SelectQuery, fallback_value, None, None),
      OverwriteRule("missing_db", SelectQuery, fallback_value, None, None),
      OverwriteRule("user_api", SelectQuery, fallback_value, None, None),
      OverwriteRule("user_db", DropQuery, fallback_value, None, None),
      OverwriteRule("user_db", SelectQuery, fallback_value, "rejects", None),
      OverwriteRule("user_db", SelectQuery, fallback_value, "accepts", "raises") }

OverwriteRules == RulesWith(None) \cup RulesWith("N/A")

\* What resolving a rule through its runner comes to: the value, or the
\* exception that the try block catches; runs counts the calls of
\* runner.execute.
Resolved(raised, value, error, runs) ==
    [raised |-> raised, value |-> value, error |-> error, runs |-> runs]

\* The try block of _overwrite_single
resolve(o, rule) ==
    LET source_type == o.data_sources[rule.data_source]
    IN  IF source_type \notin DOMAIN o.query_runners
        THEN Resolved(TRUE, None, "unsupported source type", 0)
        ELSE IF o.query_runners[source_type] = "raises"
        THEN Resolved(TRUE, None, "runner raised", 1)
        ELSE IF runner_execute(rule.query_template).status = "rejected"
        THEN Resolved(TRUE, None, "not read-only", 1)
        ELSE IF rule.validator = "rejects"
        THEN Resolved(TRUE, None, "validation failed", 1)
        ELSE IF rule.transform = "raises"
        THEN Resolved(TRUE, None, "transform raised", 1)
        ELSE Resolved(FALSE, "exact", None, 1)

\* ZeroHallucinationOverwriter._overwrite_single; a context of None or {} is
\* the empty function.
overwrite_single(o, placeholder, key, context) ==
    IF placeholder \notin DOMAIN o.rules
    THEN [result |-> IF key \in DOMAIN context
                     THEN OverwriteResult(TRUE, placeholder, context[key], "context", None)
                     ELSE OverwriteResult(FALSE, placeholder, None, "unknown", "no rule"),
          runs |-> 0]
    ELSE IF o.rules[placeholder].data_source \notin DOMAIN o.data_sources
    THEN [result |-> OverwriteResult(FALSE, placeholder, None,
                                     o.rules[placeholder].data_source, "not registered"),
          runs |-> 0]
    ELSE LET rule == o.rules[placeholder]
             got == resolve(o, rule)
         IN  [result |->
                 IF ~got.raised
                 THEN OverwriteResult(TRUE, placeholder, got.value, rule.data_source, None)
                 ELSE IF rule.fallback_value # None
                 THEN OverwriteResult(TRUE, placeholder, rule.fallback_value,
                                      rule.data_source, None)
                 ELSE OverwriteResult(FALSE, placeholder, None, rule.data_source, got.error),
              runs |-> got.runs]

\* The fallback that overwrite looks up for a placeholder that failed
FallbackOf(o, placeholder) ==
    IF placeholder \in DOMAIN o.rules THEN o.rules[placeholder].fallback_value ELSE None

\* The loop of overwrite over the placeholders that parse found; the values
\* of the model are strings, which str() leaves as they are.
RECURSIVE OverwriteEach(_, _, _, _, _, _, _)
OverwriteEach(o, placeholders, i, context, results, final_output, runs) ==
    IF i > Len(placeholders)
    THEN [results |-> results, final_output |-> final_output, runs |-> runs]
    ELSE LET ph_info == placeholders[i]
             single == overwrite_single(o, ph_info.placeholder, ph_info.key, context)
             replaced ==
                 IF single.result.success
                 THEN replace(final_output, ph_info.placeholder, single.result.final_value)
                 ELSE IF FallbackOf(o, ph_info.placeholder) # None
                 THEN replace(final_output, ph_info.placeholder,
                              FallbackOf(o, ph_info.placeholder))
                 ELSE final_output
         IN  OverwriteEach(o, placeholders, i + 1, context,
                           Append(results, single.result), replaced, runs + single.runs)

Successes(results) == Cardinality({i \in 1 .. Len(results) : results[i].success})

\* overwrite, a mutant: no early return for a template without placeholder;
\* the stats then say that something was looked at.
OverwriteAlwaysCounts(o, template, context) ==
    LET done == OverwriteEach(o, parse(template), 1, context, <<>>, template, 0)
    IN  [final_output |-> done.final_output,
         results |-> done.results,
         success |-> Successes(done.results) = Len(done.results),
         stats |-> [total |-> Len(done.results) + 1,
                    success |-> Successes(done.results),
                    failed |-> Len(done.results) - Successes(done.results)],
         runs |-> done.runs]

\* ZeroHallucinationOverwriter.overwrite
overwrite_template(o, template, context) ==
    IF parse(template) = <<>>
    THEN [final_output |-> template, results |-> <<>>, success |-> TRUE,
          stats |-> [total |-> 0, success |-> 0, failed |-> 0], runs |-> 0]
    ELSE LET done == OverwriteEach(o, parse(template), 1, context, <<>>, template, 0)
         IN  [final_output |-> done.final_output,
              results |-> done.results,
              success |-> Successes(done.results) = Len(done.results),
              stats |-> [total |-> Len(done.results),
                         success |-> Successes(done.results),
                         failed |-> Len(done.results) - Successes(done.results)],
              runs |-> done.runs]

NoOwCall == [template |-> <<>>, context |-> <<>>, called |-> FALSE, out |-> <<>>]

\* ZeroHallucinationOverwriter.__init__: the SQL runner is registered; the
\* model starts with the SQL data source "user_db" registered as well.
OverwriterFresh ==
    /\ overwriter = [data_sources |-> [name \in {"user_db"} |-> "sql"],
                     rules |-> <<>>,
                     query_runners |-> [source_type \in {"sql"} |-> "SQLQueryRunner"]]
    /\ ow_call = NoOwCall

\* register_data_source(DataSource("user_api", DataSourceType.API))
OwRegisterDataSource ==
    /\ overwriter' = [overwriter EXCEPT !.data_sources = DictSet(@, "user_api", "api")]
    /\ UNCHANGED ow_call
    /\ UNCHANGED notOverwriter

\* register_query_runner(DataSourceType.API, runner), with a runner whose
\* execute raises
OwRegisterQueryRunner ==
    /\ overwriter' = [overwriter EXCEPT !.query_runners = DictSet(@, "api", "raises")]
    /\ UNCHANGED ow_call
    /\ UNCHANGED notOverwriter

\* register_rule(rule), for the placeholder "{{user.balance}}"
OwRegisterRule ==
    /\ \E rule \in OverwriteRules :
          overwriter' = [overwriter EXCEPT !.rules = DictSet(@, "{{user.balance}}", rule)]
    /\ UNCHANGED ow_call
    /\ UNCHANGED notOverwriter

\* What overwrite is called with in the model.
OwTemplates ==
    { <<>>, <<"Hello", "World">>, <<"{name}">>,
      <<"Name:", "{{name}}">>, <<"{{name}}", "{{city}}">>, <<"${city}", "{{name}}">>,
      <<"{{user.balance}}">>, <<"{{name}}", "{{user.balance}}">>,
      <<"{{user.balance}}", "{{user.level}}">>, <<"{{user.level}}", "{{user.level}}">>,
      <<"$user.name", "$user">> }

OwContexts ==
    { <<>>,
      [key \in {"name", "user"} |-> IF key = "name" THEN "John" ELSE "Bob"],
      [key \in {"name", "city"} |-> IF key = "name" THEN "John" ELSE "Paris"],
      [key \in {"name", "city"} |-> IF key = "name" THEN "{{city}}" ELSE "Paris"] }

\* overwrite(template, context)
OwOverwrite ==
    /\ \E template \in OwTemplates, context \in OwContexts :
          \E out \in {overwrite_template(overwriter, template, context)} :
             ow_call' = [template |-> template, context |-> context,
                         called |-> TRUE, out |-> out]
    /\ UNCHANGED overwriter
    /\ UNCHANGED notOverwriter

OverwriterNext ==
    OwRegisterDataSource \/ OwRegisterQueryRunner \/ OwRegisterRule \/ OwOverwrite

\* ------------------------------------------------------- query builder
\* The characters of the values: a letter, a digit, a blank, dot and hyphen
\* (the set that _sanitize_value lets through), and a quote, a semicolon
\* and a comment sign.
SafeChars == {"a", "1", " ", ".", "-"}
UnsafeChars == {"'", ";", "#"}
NumberChars == {"1", ".", "-"}

TextsOver(chars) == UNION { [1 .. n -> chars] : n \in 0 .. MaxValueLen }

\* A context value: its Python type and, for a str, the string itself, for
\* any other type what str(value) gives; str() of a number has only the
\* characters of a number, str() of a list, dict or bytes shows what it holds.
ContextValues ==
    [type : {"int", "float"}, text : TextsOver(NumberChars) \ {<<>>}]
    \cup [type : {"str", "other"}, text : TextsOver(SafeChars \cup UnsafeChars)]

\* re.sub(r'[^\w\s.-]', '', value)
RECURSIVE StripUnsafe(_)
StripUnsafe(text) ==
    IF text = <<>>
    THEN <<>>
    ELSE (IF Head(text) \in SafeChars THEN <<Head(text)>> ELSE <<>>) \o StripUnsafe(Tail(text))

\* ZeroHallucinationOverwriter._sanitize_value
sanitize_value(value) ==
    IF value.type \in {"int", "float"}
    THEN value.text
    ELSE IF value.type = "str"
         THEN <<"'">> \o StripUnsafe(value.text) \o <<"'">>
         ELSE value.text

\* The query template "id = {user_id}": the text before its one parameter.
QueryPrefix == <<"i", "d", " ", "=", " ">>

\* ZeroHallucinationOverwriter._build_query for the context {user_id: value}
build_query(value) == QueryPrefix \o sanitize_value(value)

QueryFresh ==
    /\ query_value = [type |-> "int", text |-> <<"1">>]
    /\ built_query = <<>>

\* A context holds some value under the key of the template's parameter.
QueryInit ==
    /\ query_value \in ContextValues
    /\ built_query = <<>>

\* _overwrite_single builds the query that goes to the runner.
BuildQuery ==
    /\ built_query = <<>>
    /\ built_query' = build_query(query_value)
    /\ UNCHANGED query_value
    /\ UNCHANGED notQuery

QueryNext == BuildQuery

\* ------------------------------------------------ execute against unload
\* One tool id, its instances numbered as they are loaded. ToolExecutor.execute
\* and ToolLoader.unload_tool run as asyncio tasks: each runs until its next
\* await, where the other tasks may run.
Instances == 1 .. MaxLoads

\* One execute task: where it is, the instance get_tool gave it, the instance
\* its tool.execute was invoked on, and whether cleanup() had been called on
\* that instance by then.
ExecTask(pc, tool, invoked_on, after_cleanup) ==
    [pc |-> pc, tool |-> tool, invoked_on |-> invoked_on,
     after_cleanup |-> after_cleanup]

IdleUnload == [pc |-> "idle", tool |-> NoId]

RaceFresh ==
    /\ race_registered = NoId
    /\ race_loaded = NoId
    /\ race_cleaned = [i \in {} |-> "called"]
    /\ race_exec = [t \in Tasks |-> ExecTask("idle", NoId, NoId, FALSE)]
    /\ race_unload = IdleUnload
    /\ race_loads = 0

\* ToolLoader loads the package: a new instance, registered and remembered.
RaceLoad ==
    /\ race_loads < MaxLoads
    /\ race_loads' = race_loads + 1
    /\ race_registered' = race_loads + 1
    /\ race_loaded' = race_loads + 1
    /\ UNCHANGED <<race_cleaned, race_exec, race_unload>>
    /\ UNCHANGED notRace

\* ToolExecutor.execute up to `await tool.validate_input(params)`: get_tool,
\* the early return when there is no tool, the permission check passed.
RaceExecLookup ==
    /\ \E t \in Tasks :
          /\ race_exec[t].pc = "idle"
          /\ race_exec' = [race_exec EXCEPT ![t] =
                ExecTask(IF race_registered = NoId THEN "done" ELSE "validating",
                         race_registered, NoId, FALSE)]
    /\ UNCHANGED <<race_registered, race_loaded, race_cleaned, race_unload, race_loads>>
    /\ UNCHANGED notRace

\* validate_input returns: the early return, or on to asyncio.wait_for, which
\* schedules tool.execute as a task of its own.
RaceExecValidated ==
    /\ \E t \in Tasks, valid \in BOOLEAN :
          /\ race_exec[t].pc = "validating"
          /\ race_exec' = [race_exec EXCEPT ![t].pc = IF valid THEN "waiting" ELSE "done"]
    /\ UNCHANGED <<race_registered, race_loaded, race_cleaned, race_unload, race_loads>>
    /\ UNCHANGED notRace

\* The scheduled tool.execute(context, params) starts, on the instance that
\* get_tool returned.
RaceExecInvoke ==
    /\ \E t \in Tasks :
          /\ race_exec[t].pc = "waiting"
          /\ race_exec' = [race_exec EXCEPT ![t] =
                ExecTask("running", race_exec[t].tool, race_exec[t].tool,
                         race_exec[t].tool \in DOMAIN race_cleaned)]
    /\ UNCHANGED <<race_registered, race_loaded, race_cleaned, race_unload, race_loads>>
    /\ UNCHANGED notRace

\* tool.execute ends; record_call, the audit and the return follow.
RaceExecReturn ==
    /\ \E t \in Tasks :
          /\ race_exec[t].pc = "running"
          /\ race_exec' = [race_exec EXCEPT ![t].pc = "done"]
    /\ UNCHANGED <<race_registered, race_loaded, race_cleaned, race_unload, race_loads>>
    /\ UNCHANGED notRace

\* ToolLoader.unload_tool up to the await of cleanup(): the tool is loaded,
\* cleanup() is called on the loaded instance.
RaceUnloadCleanup ==
    /\ race_unload.pc = "idle"
    /\ race_loaded # NoId
    /\ race_unload' = [pc |-> "cleanup", tool |-> race_loaded]
    /\ race_cleaned' = DictSet(race_cleaned, race_loaded, "called")
    /\ UNCHANGED <<race_registered, race_loaded, race_exec, race_loads>>
    /\ UNCHANGED notRace

\* cleanup() returns: registry.unregister(tool_id), del loaded_tools[tool_id],
\* return True. A tool id that another load put there goes all the same.
RaceUnloadReturns ==
    /\ race_unload.pc = "cleanup"
    /\ race_unload' = IdleUnload
    /\ race_cleaned' = DictSet(race_cleaned, race_unload.tool, "returned")
    /\ race_registered' = NoId
    /\ race_loaded' = NoId
    /\ UNCHANGED <<race_exec, race_loads>>
    /\ UNCHANGED notRace

\* cleanup() raises: the except branch returns False, the tool stays
\* registered and loaded.
RaceUnloadRaises ==
    /\ race_unload.pc = "cleanup"
    /\ race_unload' = IdleUnload
    /\ race_cleaned' = DictSet(race_cleaned, race_unload.tool, "raised")
    /\ UNCHANGED <<race_registered, race_loaded, race_exec, race_loads>>
    /\ UNCHANGED notRace

RaceNext ==
    \/ RaceLoad \/ RaceExecLookup \/ RaceExecValidated \/ RaceExecInvoke
    \/ RaceExecReturn \/ RaceUnloadCleanup \/ RaceUnloadReturns \/ RaceUnloadRaises

\* ------------------------------------------------------- policy engine
\* PolicyRule; a denied pattern is known by its name, a content by the set
\* of the patterns that match it.
PolicyRule(name, allowed_actions, denied_patterns, requires_confirmation) ==
    [name |-> name, allowed_actions |-> allowed_actions,
     denied_patterns |-> denied_patterns, requires_confirmation |-> requires_confirmation]

\* PolicyDecision
PolicyDecision(allowed, matched_rule, requires_confirmation, risk_level) ==
    [allowed |-> allowed, matched_rule |-> matched_rule,
     requires_confirmation |-> requires_confirmation, risk_level |-> risk_level]

\* PolicyEngine._setup_default_rules
DefaultRules ==
    << PolicyRule("block_dangerous_sql", {"query"}, {"delete_from"}, FALSE),
       PolicyRule("sensitive_data_access", {"query"}, {}, TRUE),
       PolicyRule("system_command_restriction", {"execute"}, {"rm_rf"}, TRUE) >>

PolicyActions == {"query", "execute", "delete"}
DeniedPatterns == {"delete_from", "rm_rf", "test_pattern"}

\* The rules that callers add: test_rule of the test suite, for one action,
\* with or without confirmation.
CustomRules ==
    { PolicyRule("test_rule", {action}, {"test_pattern"}, confirm) :
        action \in PolicyActions, confirm \in BOOLEAN }

RuleNames(rules) == {rules[i].name : i \in 1 .. Len(rules)}

\* dict assignment rules[name] = rule: a known name keeps its place
policy_add_rule(rules, rule) ==
    IF rule.name \in RuleNames(rules)
    THEN [i \in 1 .. Len(rules) |-> IF rules[i].name = rule.name THEN rule ELSE rules[i]]
    ELSE Append(rules, rule)

\* PolicyEngine.remove_rule
RECURSIVE policy_remove_rule(_, _)
policy_remove_rule(rules, rule_name) ==
    IF rules = <<>>
    THEN <<>>
    ELSE (IF Head(rules).name = rule_name THEN <<>> ELSE <<Head(rules)>>)
         \o policy_remove_rule(Tail(rules), rule_name)

\* PolicyEngine.check: the walk over the rules from position i
RECURSIVE CheckFrom(_, _, _, _)
CheckFrom(rules, i, action, content) ==
    IF i > Len(rules)
    THEN PolicyDecision(TRUE, None, FALSE, "low")
    ELSE IF action \notin rules[i].allowed_actions
         THEN CheckFrom(rules, i + 1, action, content)
         ELSE IF rules[i].denied_patterns \cap content # {}
              THEN PolicyDecision(FALSE, rules[i].name, FALSE, "critical")
              ELSE IF rules[i].requires_confirmation
                   THEN PolicyDecision(TRUE, rules[i].name, TRUE, "medium")
                   ELSE CheckFrom(rules, i + 1, action, content)

policy_check(rules, action, content) == CheckFrom(rules, 1, action, content)

NoPolicyCall ==
    [called |-> FALSE, action |-> None, content |-> {},
     decision |-> PolicyDecision(TRUE, None, FALSE, "low")]

\* PolicyEngine.__init__
PolicyFresh ==
    /\ policy_rules = DefaultRules
    /\ policy_call = NoPolicyCall

\* add_rule(rule)
PolicyAddRule ==
    /\ \E rule \in CustomRules : policy_rules' = policy_add_rule(policy_rules, rule)
    /\ UNCHANGED policy_call
    /\ UNCHANGED notPolicy

\* remove_rule(rule_name) for a name that is registered
PolicyRemoveRule ==
    /\ \E rule_name \in RuleNames(policy_rules) :
          policy_rules' = policy_remove_rule(policy_rules, rule_name)
    /\ UNCHANGED policy_call
    /\ UNCHANGED notPolicy

\* check(action, content)
PolicyCheck ==
    /\ \E action \in PolicyActions, content \in SUBSET DeniedPatterns :
          policy_call' = [called |-> TRUE, action |-> action, content |-> content,
                          decision |-> policy_check(policy_rules, action, content)]
    /\ UNCHANGED policy_rules
    /\ UNCHANGED notPolicy

PolicyNext == PolicyAddRule \/ PolicyRemoveRule \/ PolicyCheck

InitSoul ==
    /\ AuditFresh
    /\ ToolFresh
    /\ SoulGateInit
    /\ SoulInit
    /\ SqlFresh
    /\ RegistryFresh
    /\ LoaderFresh
    /\ ModeFresh
    /\ OverwriterFresh /\ QueryFresh /\ LedgerFresh /\ PolicyFresh /\ RaceFresh

SpecSoul == InitSoul /\ [][SoulNext]_vars

InitConcurrent ==
    /\ AuditFresh
    /\ ToolFresh
    /\ SoulGateInit
    /\ ConcurrentInit
    /\ SqlFresh
    /\ RegistryFresh
    /\ LoaderFresh
    /\ ModeFresh
    /\ OverwriterFresh /\ QueryFresh /\ LedgerFresh /\ PolicyFresh /\ RaceFresh

SpecConcurrent == InitConcurrent /\ [][ConcurrentNext]_vars

InitGate ==
    AuditFresh /\ ToolFresh /\ GateInit /\ SoulFresh /\ SqlFresh /\ RegistryFresh /\ LoaderFresh
    /\ ModeFresh /\ OverwriterFresh /\ QueryFresh /\ LedgerFresh /\ PolicyFresh /\ RaceFresh

SpecGate == InitGate /\ [][GateNext]_vars

\* C10: in run_phase, once a check returned a failing result of severity
\* CRITICAL or HIGH, no later check of the phase is evaluated, whatever the
\* configuration of the gate: such a result is the last one of the phase.
PhaseFailFast ==
    gate_run.op = "run_phase" =>
        \A i \in 1 .. Len(gate_run.results) :
            (/\ ~gate_run.results[i].passed
             /\ ~gate_run.results[i].raised
             /\ gate_run.results[i].severity \in {"critical", "high"})
            => i = Len(gate_run.results)

InitTool ==
    AuditFresh /\ ToolInit /\ GateFresh /\ SoulFresh /\ SqlFresh /\ RegistryFresh /\ LoaderFresh
    /\ ModeFresh /\ OverwriterFresh /\ QueryFresh /\ LedgerFresh /\ PolicyFresh /\ RaceFresh

SpecTool == InitTool /\ [][ToolNext]_vars

InitAudit ==
    AuditFresh /\ ToolFresh /\ GateFresh /\ SoulFresh /\ SqlFresh /\ RegistryFresh /\ LoaderFresh
    /\ ModeFresh /\ OverwriterFresh /\ QueryFresh /\ LedgerFresh /\ PolicyFresh /\ RaceFresh

SpecAudit == InitAudit /\ [][AuditNext]_vars

InitSql ==
    AuditFresh /\ ToolFresh /\ GateFresh /\ SoulFresh /\ SqlInit /\ RegistryFresh /\ LoaderFresh
    /\ ModeFresh /\ OverwriterFresh /\ QueryFresh /\ LedgerFresh /\ PolicyFresh /\ RaceFresh

SpecSql == InitSql /\ [][SqlNext]_vars

InitRegistry ==
    AuditFresh /\ ToolFresh /\ GateFresh /\ SoulFresh /\ SqlFresh /\ RegistryFresh /\ LoaderFresh
    /\ ModeFresh /\ OverwriterFresh /\ QueryFresh /\ LedgerFresh /\ PolicyFresh /\ RaceFresh

SpecRegistry == InitRegistry /\ [][RegistryNext]_vars

InitLoader ==
    AuditFresh /\ ToolFresh /\ GateFresh /\ SoulFresh /\ SqlFresh /\ RegistryFresh /\ LoaderFresh
    /\ ModeFresh /\ OverwriterFresh /\ QueryFresh /\ LedgerFresh /\ PolicyFresh /\ RaceFresh

SpecLoader == InitLoader /\ [][LoaderNext]_vars

InitMode ==
    AuditFresh /\ ToolFresh /\ GateFresh /\ SoulFresh /\ SqlFresh /\ RegistryFresh /\ LoaderFresh
    /\ ModeFresh /\ OverwriterFresh /\ QueryFresh /\ LedgerFresh /\ PolicyFresh /\ RaceFresh

SpecMode == InitMode /\ [][ModeNext]_vars

InitThresholds ==
    AuditFresh /\ ToolFresh /\ GateFresh /\ SoulFresh /\ SqlFresh /\ RegistryFresh /\ LoaderFresh
    /\ ThresholdsInit /\ OverwriterFresh /\ QueryFresh /\ LedgerFresh /\ PolicyFresh /\ RaceFresh

SpecThresholds == InitThresholds /\ [][ThresholdsNext]_vars

InitAnalyzer ==
    AuditFresh /\ ToolFresh /\ GateFresh /\ SoulFresh /\ SqlFresh /\ RegistryFresh /\ LoaderFresh
    /\ AnalyzerInit /\ OverwriterFresh /\ QueryFresh /\ LedgerFresh /\ PolicyFresh /\ RaceFresh

SpecAnalyzer == InitAnalyzer /\ [][AnalyzerNext]_vars

InitOverwriter ==
    AuditFresh /\ ToolFresh /\ GateFresh /\ SoulFresh /\ SqlFresh /\ RegistryFresh /\ LoaderFresh
    /\ ModeFresh /\ OverwriterFresh /\ QueryFresh /\ LedgerFresh /\ PolicyFresh /\ RaceFresh

SpecOverwriter == InitOverwriter /\ [][OverwriterNext]_vars

InitQuery ==
    AuditFresh /\ ToolFresh /\ GateFresh /\ SoulFresh /\ SqlFresh /\ RegistryFresh /\ LoaderFresh
    /\ ModeFresh /\ OverwriterFresh /\ QueryInit /\ LedgerFresh /\ PolicyFresh /\ RaceFresh

SpecQuery == InitQuery /\ [][QueryNext]_vars

InitLedger ==
    AuditFresh /\ ToolFresh /\ GateFresh /\ SoulFresh /\ SqlFresh /\ RegistryFresh /\ LoaderFresh
    /\ ModeFresh /\ OverwriterFresh /\ QueryFresh /\ LedgerFresh /\ PolicyFresh /\ RaceFresh

SpecLedger == InitLedger /\ [][LedgerNext]_vars

InitPolicy ==
    AuditFresh /\ ToolFresh /\ GateFresh /\ SoulFresh /\ SqlFresh /\ RegistryFresh /\ LoaderFresh
    /\ ModeFresh /\ OverwriterFresh /\ QueryFresh /\ LedgerFresh /\ PolicyFresh /\ RaceFresh

SpecPolicy == InitPolicy /\ [][PolicyNext]_vars

InitRace ==
    AuditFresh /\ ToolFresh /\ GateFresh /\ SoulFresh /\ SqlFresh /\ RegistryFresh /\ LoaderFresh
    /\ ModeFresh /\ OverwriterFresh /\ QueryFresh /\ LedgerFresh /\ PolicyFresh /\ RaceFresh

SpecRace == InitRace /\ [][RaceNext]_vars

\* C1: the tool's execute is invoked only when its declared permissions are a
\* subset of the granted ones; otherwise the call returns success=false with an
\* error listing the missing permissions and the tool's execute is not invoked.
PermissionGate ==
    LET c == last_call IN
    /\ c.invoked => c.declared \subseteq c.granted
    /\ ~(c.declared \subseteq c.granted) =>
          /\ ~c.invoked
          /\ ~c.raised
          /\ ~c.result.success
          /\ c.result.error = "permission_denied"
          /\ c.result.missing = c.declared \ c.granted
          /\ c.result.missing # {}

PermissionGateWitness ==
    /\ last_call.result.error = "permission_denied"
    /\ last_call.granted # {}
    /\ tool_stats["sql"].call_count > 0

\* ------------------------------------------------- tool executor properties
\* The effective timeout as the specification defines it: the per-call
\* timeout when one is passed, otherwise the configured default.
StatedTimeout(c) ==
    IF c.input.timeout # NoNum THEN c.input.timeout ELSE default_timeout

\* C16: a tool that does not finish within the effective timeout (the
\* per-call timeout when one is passed, otherwise the configured default)
\* yields a ToolResult with success=false that reports the timeout, without
\* raising; the call is recorded as an error in the registry and audited.
TimeoutReported ==
    LET c == last_call IN
    (c.invoked /\ c.input.duration > StatedTimeout(c)) =>
        /\ ~c.raised
        /\ ~c.result.success
        /\ c.result.error = "timeout"
        /\ c.recorded = "error"
        /\ c.input.cb = "ok" =>
              tool_audit = <<AuditData(c.tool_id, FALSE, "timeout")>>

\* The same with the timeout the code computes: a tool that outlasts it is
\* reported, recorded and audited as the claim says.
CodeTimeoutReported ==
    LET c == last_call IN
    (c.invoked /\ c.input.duration > c.timeout) =>
        /\ ~c.raised
        /\ ~c.result.success
        /\ c.result.error = "timeout"
        /\ c.recorded = "error"
        /\ c.input.cb = "ok" =>
              tool_audit = <<AuditData(c.tool_id, FALSE, "timeout")>>

\* C17: whatever the tool's validate_input or execute raises is caught and
\* turned into a ToolResult with success=false; execute never raises.
ExecuteNeverRaises ==
    LET c == last_call IN
    /\ ~c.raised
    /\ (c.input.validate = "raise" \/ (c.invoked /\ c.input.outcome = "raise")) =>
          ~c.result.success

\* C18: when the audit callback raises, the call returns the ToolResult and
\* leaves the registry statistics it would have with a callback that
\* succeeds.
AuditFailureHarmless ==
    [][(n_calls' = n_calls + 1 /\ last_call'.input.cb = "raise") =>
         LET same == execute(tool_meta, tool_stats, enable_sandbox,
                             [last_call'.input EXCEPT !.cb = "ok"])
         IN  /\ ~last_call'.raised
             /\ last_call'.raised = same.call.raised
             /\ last_call'.result = same.call.result
             /\ tool_stats' = same.stats]_vars

\* A call whose audit callback raised after the tool had succeeded.
AuditFailureHarmlessWitness ==
    /\ last_call.input.cb = "raise"
    /\ last_call.invoked
    /\ last_call.result.success
    /\ tool_stats["sql"].success_count > 0

\* C19: a tool whose metadata has sandbox_required=true is executed only
\* when the executor's sandbox is enabled; with enable_sandbox=false the call
\* is denied and the tool's execute is not invoked.
SandboxGate ==
    LET c == last_call IN
    /\ (c.invoked /\ c.sandbox_required) => enable_sandbox
    /\ (c.tool_id # None /\ c.sandbox_required /\ ~enable_sandbox) =>
          ~c.invoked /\ ~c.result.success

\* C20: however concurrent record_call, register and unregister calls
\* interleave, record_call is atomic: after k completed record_call calls
\* since the tool's registration, call_count is k, success_count +
\* error_count is call_count, and total_time_ms is the sum of the k latencies.
RecordCallAtomic ==
    "sql" \in DOMAIN tool_stats =>
        LET st == tool_stats["sql"] IN
        /\ st.call_count = reg_count.calls
        /\ st.success_count = reg_count.ok
        /\ st.success_count + st.error_count = st.call_count
        /\ st.total_time_ms = reg_count.time_ms

\* Two record_call calls completed while another task was waiting for the
\* lock.
RecordCallAtomicWitness ==
    /\ "sql" \in DOMAIN tool_stats
    /\ tool_stats["sql"].call_count = 2
    /\ tool_stats["sql"].error_count = 1
    /\ tool_stats["sql"].total_time_ms = 12

\* ------------------------------------------------------ loader properties
\* The tools of the latest manifest that loaded: initialize returned true and
\* nothing raised.
RECURSIVE LoadedFrom(_, _)
LoadedFrom(manifest, i) ==
    IF i > Len(manifest) THEN <<>>
    ELSE (IF manifest[i] = "ok" THEN <<ManifestIds[i]>> ELSE <<>>)
         \o LoadedFrom(manifest, i + 1)

LoadedOf(manifest) == LoadedFrom(manifest, 1)

\* C22: load_from_directory returns, in manifest order, exactly the ids of
\* the tools whose initialize returned true, and exactly those tools are
\* registered; a tool that fails to initialize or whose loading raises is
\* skipped: the call does not raise, later tools load, earlier ones stay.
LoadPartialSuccess ==
    loader_call.op = "load" =>
        LET manifest == loader_call.manifest IN
        /\ ~loader_call.raised
        /\ loader_call.returned = LoadedOf(manifest)
        /\ \A i \in 1 .. Len(manifest) :
              /\ ManifestIds[i] \in DOMAIN tool_meta <=>
                    (manifest[i] = "ok" \/ ManifestIds[i] \in loader_call.before)
              /\ manifest[i] = "ok" => ManifestIds[i] \in loader_loaded

\* The same for manifests none of whose tools has a metadata property that
\* raises.
LoadPartialSuccessValidMetadata ==
    (loader_call.op = "load"
        /\ \A i \in 1 .. Len(loader_call.manifest) :
              loader_call.manifest[i] # "metadata_raise") => LoadPartialSuccess

\* C23: unload_tool calls the tool's cleanup and, only after it returned,
\* removes the tool from the registry and from the loader; for an id that is
\* not loaded, or when cleanup raises, it returns False without raising and
\* leaves the registry and the loaded tools as they were.
UnloadContract ==
    [][loader_call'.op = "unload" =>
         LET c == loader_call' IN
         /\ ~c.raised
         /\ (c.tool_id \notin loader_loaded \/ c.cleanup = "raise") =>
               /\ ~c.result
               /\ tool_meta' = tool_meta
               /\ tool_stats' = tool_stats
               /\ loader_loaded' = loader_loaded
         /\ c.tool_id \notin loader_loaded => c.trace = <<>>
         /\ (c.tool_id \in loader_loaded /\ c.cleanup = "ok") =>
               /\ c.result
               /\ c.trace = <<"cleanup", "unregister", "forget">>
               /\ c.tool_id \notin DOMAIN tool_meta'
               /\ loader_loaded' = loader_loaded \ {c.tool_id}]_vars

\* A loaded tool's cleanup raised: the tool is still loaded and registered.
UnloadContractWitness ==
    /\ loader_call.op = "unload"
    /\ loader_call.cleanup = "raise"
    /\ loader_call.trace = <<"cleanup">>
    /\ loader_call.tool_id \in loader_loaded
    /\ loader_call.tool_id \in DOMAIN tool_meta

\* ------------------------------------------------ concurrency properties
\* C21: however concurrent requests interleave at their awaits, those that
\* end with an orchestrator-level exception included, the ledger is as one
\* writer would leave it: every entry's previous_hash is the entry_hash of
\* the entry just before it, no two entries share a previous_hash, and
\* verify_chain is valid.
SingleWriter ==
    /\ \A i \in 1 .. Len(entries) :
          entries[i].previous_hash =
              IF i = 1 THEN NoHash ELSE entries[i - 1].entry_hash
    /\ \A i, j \in 1 .. Len(entries) :
          i # j => entries[i].previous_hash # entries[j].previous_hash
    /\ verify_chain(entries).valid
    /\ verify_chain(entries).total_entries = Len(entries)

\* Two requests have returned, one of them through the except branch, and
\* the entries of one lie between entries of the other.
SingleWriterWitness ==
    /\ \A r \in DOMAIN req : req[r].pc = "returned"
    /\ \E r \in DOMAIN req : req[r].fault # None
    /\ \E i, j, k \in 1 .. Len(entries) :
          /\ i < j
          /\ j < k
          /\ entries[i].request_id = entries[k].request_id
          /\ entries[i].request_id # entries[j].request_id

\* --------------------------------------------------- orchestrator properties
\* The audit entries the latest execute call of request r appended.
Appended(r) == SubSeq(entries, req[r].audits_before + 1, Len(entries))

\* How many of them record the failure of the call.
FailureEntries(r) ==
    Cardinality({i \in 1 .. Len(Appended(r)) :
                    Appended(r)[i].action = "execution_failed"})

\* The stage in which each fault is raised.
FaultStage(fault) ==
    CASE fault = "decide" -> "analyzing"
      [] fault = "no_executor" -> "executing"
      [] fault = "executor" -> "executing"
      [] fault = "overwriter" -> "overwriting"

\* The timings of the stages a call completed before the fault.
TimingsBefore(rec) ==
    CASE rec.fault = "decide" -> {}
      [] rec.fault \in {"no_executor", "executor"} ->
            {"analyze"} \cup (IF rec.skip_security THEN {} ELSE {"security"})
      [] rec.fault = "overwriter" ->
            {"analyze", "execute"} \cup (IF rec.skip_security THEN {} ELSE {"security"})

\* C5: with security checks enabled, when the report's aggregate risk level
\* is critical the executor and the overwriter are never invoked for the
\* request, and the call returns a denied result: success = false and
\* error_stage = SECURITY_CHECK.
DeniedOnCritical ==
    \A r \in Requests :
        (req[r].pc # "idle" /\ ~req[r].skip_security /\ req[r].risk_level = "critical")
        => /\ req[r].pc = "returned"
           /\ ~req[r].executor_invoked
           /\ ~req[r].overwriter_invoked
           /\ ~req[r].result.success
           /\ req[r].result.error = "denied"
           /\ req[r].result.error_stage = "security_check"

\* A request with a user id, with an executor registered for its mode, whose
\* report was critical, has been denied.
DeniedOnCriticalWitness ==
    \E r \in Requests :
        /\ req[r].pc = "returned"
        /\ ~req[r].skip_security
        /\ req[r].risk_level = "critical"
        /\ req[r].user_id # None
        /\ req[r].had_executor
        /\ req[r].result.error_stage = "security_check"

\* C6: a request with a user id, no injection pattern, granted permissions
\* covering those its mode requires and an executor registered for its mode,
\* run with the default flags, whose executor returns a string, ends in
\* COMPLETED with success = true.
DefaultFlagsComplete ==
    \A r \in Requests :
        (/\ req[r].pc = "returned"
         /\ req[r].user_id # None
         /\ ~req[r].injection
         /\ req[r].decision # NoDecision
         /\ get_required_permissions(req[r].decision.mode)
               \subseteq req[r].granted_permissions
         /\ req[r].had_executor
         /\ ~req[r].skip_security
         /\ ~req[r].skip_overwrite
         /\ req[r].fault = None)
        => /\ req[r].result.success
           /\ req[r].stage = "completed"

\* C7: every call ends in a terminal stage: COMPLETED when the result has
\* success = true, FAILED when the request was denied or an exception was
\* raised.
TerminalStage ==
    \A r \in Requests :
        req[r].pc = "returned"
        => /\ req[r].result.success => req[r].stage = "completed"
           /\ ~req[r].result.success => req[r].stage = "failed"

\* C8 as stated: when an exception is raised at any stage, the call returns,
\* exactly one failure entry (success = false) is appended, and the result
\* has success = false, an error message, the stage of the exception and the
\* timings of the stages completed before it.
ExceptionOneFailureEntry ==
    \A r \in Requests :
        (req[r].pc = "returned" /\ req[r].fault # None)
        => /\ FailureEntries(r) = 1
           /\ ~req[r].result.success
           /\ req[r].result.error # None
           /\ req[r].result.error_stage = FaultStage(req[r].fault)
           /\ req[r].result.stage_timings = TimingsBefore(req[r])

\* C8: when an exception is raised at any stage, the call returns; with
\* auditing enabled exactly one failure entry (success = false, the last of
\* the chain) is appended, and none with auditing disabled; the result has
\* success = false, an error message, the stage of the exception and the
\* timings of the stages completed before it.
ExceptionHandled ==
    \A r \in Requests :
        (req[r].pc = "returned" /\ req[r].fault # None)
        => /\ FailureEntries(r) = (IF enable_audit THEN 1 ELSE 0)
           /\ enable_audit =>
                 /\ entries[Len(entries)].action = "execution_failed"
                 /\ ~entries[Len(entries)].success
           /\ ~enable_audit => Len(entries) = 0
           /\ ~req[r].result.success
           /\ req[r].result.error # None
           /\ req[r].result.error_stage = FaultStage(req[r].fault)
           /\ req[r].result.stage_timings = TimingsBefore(req[r])

\* With auditing enabled, an executor raised after the security stage ran:
\* the call returned with the failure entry written.
ExceptionHandledWitness ==
    \E r \in Requests :
        /\ req[r].pc = "returned"
        /\ req[r].fault = "executor"
        /\ enable_audit
        /\ ~req[r].skip_security
        /\ FailureEntries(r) = 1
        /\ req[r].result.stage_timings = {"analyze", "security"}

\* The audit action that records the entry into each stage; the entry
\* written when the executor returns is taken as the record of COMPLETED.
TransitionAudit(stage) ==
    CASE stage = "analyzing" -> "mode_decision"
      [] stage = "security_check" -> "security_check"
      [] stage = "executing" -> "execution_start"
      [] stage = "overwriting" -> "data_overwrite"
      [] stage = "completed" -> "execution_end"

\* C9: with auditing enabled, every stage transition of a call (entering
\* ANALYZING, SECURITY_CHECK, EXECUTING, OVERWRITING, and the final COMPLETED
\* or FAILED) appends an audit entry for that transition, for every
\* combination of skip_security and skip_overwrite.
TransitionsAudited ==
    \A r \in Requests :
        (enable_audit /\ req[r].pc = "returned")
        => /\ \A i \in 1 .. Len(req[r].trace) :
                 \E j \in 1 .. Len(Appended(r)) :
                    Appended(r)[j].action = TransitionAudit(req[r].trace[i])
           /\ ~req[r].result.success => FailureEntries(r) = 1


\* ----------------------------------------------------------- gate properties
\* Result i of the latest gate run was produced by the enabled check
\* registered at position k.
ProducedBy(i, k) ==
    /\ k \in 1 .. Len(checks)
    /\ checks[k].check_id = gate_run.results[i].check_id
    /\ checks[k].phase = gate_run.results[i].phase
    /\ checks[k].enabled

\* C11: run_all evaluates the phases in the order ENTRY, CONTENT, BEHAVIOR,
\* EXECUTION, the enabled checks of a phase in registration order, and with
\* fail-fast enabled no check of a later phase is evaluated once a phase
\* produced a failing CRITICAL result.
RunAllOrdered ==
    gate_run.op = "run_all" =>
        LET r == gate_run.results IN
        /\ \A i \in 1 .. Len(r) : \E k \in 1 .. Len(checks) : ProducedBy(i, k)
        /\ \A i, j \in 1 .. Len(r) :
              i < j =>
                 \/ r[i].phase < r[j].phase
                 \/ /\ r[i].phase = r[j].phase
                    /\ \E k, l \in 1 .. Len(checks) :
                          k < l /\ ProducedBy(i, k) /\ ProducedBy(j, l)
        /\ \A i, j \in 1 .. Len(r) :
              (fail_fast /\ ~r[i].passed /\ r[i].severity = "critical")
              => r[j].phase <= r[i].phase

\* With fail-fast enabled a run passed ENTRY and CONTENT and stopped on a
\* failing CRITICAL result of BEHAVIOR.
RunAllOrderedWitness ==
    /\ gate_run.op = "run_all"
    /\ fail_fast
    /\ Len(gate_run.results) >= 5
    /\ LET last == gate_run.results[Len(gate_run.results)] IN
       ~last.passed /\ last.severity = "critical" /\ last.phase = BEHAVIOR

\* C13: run_all reports risk_level critical if some failing result has
\* severity CRITICAL, else high if some failing result has severity HIGH,
\* else medium if any result failed, else low.
RiskLevelRule ==
    gate_run.op = "run_all" =>
        LET r == gate_run.results
            failing(sev) == \E i \in 1 .. Len(r) : ~r[i].passed /\ r[i].severity = sev
        IN  gate_run.risk_level =
               (IF failing("critical") THEN "critical"
                ELSE IF failing("high") THEN "high"
                ELSE IF failing("low") \/ failing("medium") THEN "medium"
                ELSE "low")

\* A run whose only failures are of severity HIGH reported high.
RiskLevelRuleWitness ==
    /\ gate_run.op = "run_all"
    /\ gate_run.risk_level = "high"
    /\ \E i \in 1 .. Len(gate_run.results) : ~gate_run.results[i].passed
    /\ \A i \in 1 .. Len(gate_run.results) :
          ~gate_run.results[i].passed => gate_run.results[i].severity = "high"


\* C12: a check that raises is never recorded as passed: both gates record
\* for it a failing result of severity CRITICAL, whatever severity the check
\* declares.
RaisedIsCritical ==
    \A i \in 1 .. Len(gate_run.results) :
        gate_run.results[i].raised
        => /\ ~gate_run.results[i].passed
           /\ gate_run.results[i].severity = "critical"

\* The same for LayeredSecuritySystem alone.
LayeredRaisedIsCritical ==
    gate_run.op \in {"run_phase", "run_all"} => RaisedIsCritical


\* ---------------------------------------------------- SQL gate properties
\* The same letter, whatever its case.
SameLetter(a, b) ==
    \/ a = b
    \/ \E k \in 1 .. Len(LowerLetters) :
          {a, b} = {LowerLetters[k], UpperLetters[k]}

\* The word occurs in the string at some position, in any letter case.
Occurs(word, str) ==
    \E i \in 1 .. Len(str) - Len(word) + 1 :
        \A j \in 1 .. Len(word) : SameLetter(str[i + j - 1], word[j])

\* The write keywords the specification lists.
WriteWords ==
    { <<"I", "N", "S", "E", "R", "T">>,
      <<"U", "P", "D", "A", "T", "E">>,
      <<"D", "E", "L", "E", "T", "E">>,
      <<"D", "R", "O", "P">>,
      <<"C", "R", "E", "A", "T", "E">>,
      <<"A", "L", "T", "E", "R">>,
      <<"T", "R", "U", "N", "C", "A", "T", "E">>,
      <<"G", "R", "A", "N", "T">>,
      <<"R", "E", "V", "O", "K", "E">> }

HasWriteWord(str) == \E word \in WriteWords : Occurs(word, str)

\* The string begins with SELECT, letter case and leading blanks aside.
BeginsWithSelect(str) ==
    \E n \in 0 .. Len(str) :
        /\ \A i \in 1 .. n : str[i] = " "
        /\ Len(str) >= n + 6
        /\ \A j \in 1 .. 6 : SameLetter(str[n + j], SelectWord[j])

\* C14: for every SQL string that contains one of INSERT, UPDATE, DELETE,
\* DROP, CREATE, ALTER, TRUNCATE, GRANT, REVOKE at any position and in any
\* letter case, the read-only check of either gate returns a failing result
\* of severity CRITICAL (and it passes a string that contains none).
ReadOnlyCheckFails ==
    \A i \in 1 .. Len(sql_check) :
        /\ HasWriteWord(sql_query) =>
              ~sql_check[i].passed /\ sql_check[i].severity = "critical"
        /\ ~HasWriteWord(sql_query) => sql_check[i].passed

\* The checks looked at a string that has a keyword in mixed case, not at its
\* start, and failed it.
ReadOnlyCheckFailsWitness ==
    /\ Len(sql_check) = 2
    /\ ~sql_check[1].passed
    /\ ~sql_check[2].passed
    /\ Occurs(<<"D", "R", "O", "P">>, sql_query)
    /\ ~contains(sql_query, <<"D", "R", "O", "P">>)
    /\ BeginsWithSelect(sql_query)

\* C15: the SQL runner returns data only for a query that begins with SELECT
\* and contains no write keyword; every other query is rejected and not
\* executed, whether or not a read-only check looked at it before.
RunnerReadOnly ==
    /\ sql_run.status = "data" =>
          BeginsWithSelect(sql_query) /\ ~HasWriteWord(sql_query)
    /\ (sql_run.status # None
          /\ ~(BeginsWithSelect(sql_query) /\ ~HasWriteWord(sql_query))) =>
          sql_run.status = "rejected" /\ ~sql_run.executed
    /\ sql_run.executed => sql_run.status = "data"

\* The runner rejected a SELECT with a write keyword that no check had looked
\* at.
RunnerReadOnlyWitness ==
    /\ sql_run.status = "rejected"
    /\ sql_check = <<>>
    /\ BeginsWithSelect(sql_query)
    /\ HasWriteWord(sql_query)

\* ------------------------------------------------- mode engine properties
\* The latest decision came from the default threshold rule: no override
\* was set for the content or the user and no hook returned a decision.
OverrideApplies(engine, call) ==
    \/ ContentHash(call.content) \in DOMAIN engine.user_overrides.by_hash
    \/ call.user_id # None /\ call.user_id \in DOMAIN engine.user_overrides.by_user

HookApplies(engine) ==
    \E i \in 1 .. Len(engine.decision_hooks) : engine.decision_hooks[i] # "null"

ByDefaultRule ==
    /\ mode_call.op \in {"decide", "decide_mode"}
    /\ ~OverrideApplies(mode_engine, mode_call)
    /\ ~HookApplies(mode_engine)

\* C24: whatever pair of thresholds is configured, a decision made by the
\* default rule (no override, no hook) for a score >= local_threshold is
\* LOCAL_ONLY and requires confirmation; so for DynamicModeEngine.decide and
\* for ModeController.decide_mode.
LocalThresholdRule ==
    (ByDefaultRule /\ mode_call.score >= mode_engine.local_threshold)
        => /\ mode_call.decision.mode = "local_only"
           /\ mode_call.decision.requires_confirmation

\* Both classes have decided LOCAL_ONLY at configured thresholds whose ranges
\* overlap, for a score that is in both.
LocalThresholdRuleWitness ==
    /\ ByDefaultRule
    /\ mode_call.op = "decide_mode"
    /\ mode_engine.local_threshold = 50
    /\ mode_engine.cloud_threshold = 80
    /\ mode_call.score = 65
    /\ mode_call.decision.mode = "local_only"
    /\ mode_call.decision.requires_confirmation

\* C25 as stated: whatever pair of thresholds is configured, a decision made
\* by the default rule for a score <= cloud_threshold is CLOUD_SANDBOX.
CloudThresholdRule ==
    (ByDefaultRule /\ mode_call.score <= mode_engine.cloud_threshold)
        => mode_call.decision.mode = "cloud_sandbox"

\* C25, amended: whatever pair of thresholds is configured, a decision made
\* by the default rule for a score that is <= cloud_threshold and below
\* local_threshold is CLOUD_SANDBOX (a score in both ranges is LOCAL_ONLY).
CloudThresholdRuleBelowLocal ==
    (/\ ByDefaultRule
     /\ mode_call.score <= mode_engine.cloud_threshold
     /\ mode_call.score < mode_engine.local_threshold)
        => mode_call.decision.mode = "cloud_sandbox"

\* decide has answered CLOUD_SANDBOX for a score equal to a configured
\* cloud_threshold that is not the default one.
CloudThresholdRuleWitness ==
    /\ ByDefaultRule
    /\ mode_call.op = "decide"
    /\ mode_engine.cloud_threshold = 50
    /\ mode_engine.local_threshold = 100
    /\ mode_call.score = 50
    /\ mode_call.decision.mode = "cloud_sandbox"

\* The hooks that decide returns after calling: up to the first that decides.
FirstDeciding(hooks) ==
    IF \E i \in 1 .. Len(hooks) : hooks[i] # "null"
    THEN CHOOSE i \in 1 .. Len(hooks) :
            hooks[i] # "null" /\ \A j \in 1 .. i - 1 : hooks[j] = "null"
    ELSE 0

OverrideModesFor(engine, call) ==
    {engine.user_overrides.by_hash[h] :
        h \in {ContentHash(call.content)} \cap DOMAIN engine.user_overrides.by_hash}
    \cup {engine.user_overrides.by_user[u] :
            u \in ({call.user_id} \ {None}) \cap DOMAIN engine.user_overrides.by_user}

DecidedInOrder(engine, call) ==
    IF OverrideApplies(engine, call)
    THEN /\ call.trace = <<>>
         /\ call.decision.confidence = 100
         /\ call.decision.mode \in OverrideModesFor(engine, call)
    ELSE IF HookApplies(engine)
         THEN /\ call.trace = [i \in 1 .. FirstDeciding(engine.decision_hooks) + 1 |-> i - 1]
              /\ call.decision =
                    HookResult(engine.decision_hooks[FirstDeciding(engine.decision_hooks)],
                               call.score)
         ELSE /\ call.trace = [i \in 1 .. Len(engine.decision_hooks) + 1 |-> i - 1]
              /\ call.decision = MakeDecision(engine, call.score)

\* C26: every decide call resolves in the fixed order: an override set for
\* the content fingerprint or for the user gives the override's mode with
\* confidence 1.0 and neither the analyzer nor a hook is called; otherwise
\* the analyzer is called, then the hooks in registration order up to the
\* first that returns a decision, which is returned; the default threshold
\* rule decides only if every hook returned None.
DecideOrder ==
    [][(mode_call' # mode_call /\ mode_call'.op = "decide")
          => DecidedInOrder(mode_engine, mode_call')]_vars

\* decide has returned the decision of the second hook after the analyzer
\* and the first hook, and on another occasion an override; here the former
\* with an override set for another user.
DecideOrderWitness ==
    /\ mode_call.op = "decide"
    /\ mode_engine.decision_hooks = <<"null", "decides">>
    /\ "u1" \in DOMAIN mode_engine.user_overrides.by_user
    /\ mode_call.user_id = "u2"
    /\ mode_call.trace = <<0, 1, 2>>
    /\ mode_call.decision.confidence = 70

\* C27: for every content, whatever rules with scores in [0,1] match it and
\* whatever context flags are set, the score analyze returns is in [0,1].
ScoreInRange ==
    mode_call.op = "analyze" => (0 <= mode_call.score /\ mode_call.score <= 100)

\* analyze has returned 1.0 for a content matched by a rule of score 0.95
\* with all three context flags set.
ScoreInRangeWitness ==
    /\ mode_call.op = "analyze"
    /\ mode_call.context.user_marked_sensitive
    /\ mode_call.context.is_admin
    /\ mode_call.context.environment = "production"
    /\ \E i \in 1 .. Len(mode_call.content) : mode_call.content[i] = 95
    /\ mode_call.score = 100

\* ------------------------------------------------- overwriter properties
\* C28: for every template in which the parser finds no placeholder,
\* overwrite returns the template as final_output with success=true, no
\* result, stats.total = 0, and no query runner has been called.
NoPlaceholderNoOp ==
    (ow_call.called /\ parse(ow_call.template) = <<>>)
        => /\ ow_call.out.final_output = ow_call.template
           /\ ow_call.out.success
           /\ ow_call.out.results = <<>>
           /\ ow_call.out.stats.total = 0
           /\ ow_call.out.runs = 0

\* overwrite has been called on "Hello World" with a context and with a
\* rule registered.
NoPlaceholderNoOpWitness ==
    /\ ow_call.called
    /\ ow_call.template = <<"Hello", "World">>
    /\ DOMAIN ow_call.context # {}
    /\ DOMAIN overwriter.rules # {}
    /\ ow_call.out.stats.total = 0

\* The positions of the template that hold a placeholder without rule whose
\* key the context has.
FromContext(o, call) ==
    {i \in 1 .. Len(call.template) :
        /\ PlaceholderKey(call.template[i]) # None
        /\ call.template[i] \notin DOMAIN o.rules
        /\ PlaceholderKey(call.template[i]) \in DOMAIN call.context}

ContextValueAt(call, i) == call.context[PlaceholderKey(call.template[i])]

SubstitutedFromContext(o, call) ==
    \A i \in FromContext(o, call) :
        /\ call.out.final_output[i] = ContextValueAt(call, i)
        /\ \E k \in 1 .. Len(call.out.results) :
              /\ call.out.results[k].placeholder = call.template[i]
              /\ call.out.results[k].success
              /\ call.out.results[k].final_value = ContextValueAt(call, i)

\* C29: a placeholder without registered rule whose key is a key of the
\* context stands replaced by that context value in final_output and has a
\* successful result.
ContextValueSubstituted ==
    ow_call.called => SubstitutedFromContext(overwriter, ow_call)

\* The same, for the contexts none of whose values reads as a placeholder.
ContextValueSubstitutedPlain ==
    (/\ ow_call.called
     /\ \A key \in DOMAIN ow_call.context : PlaceholderKey(ow_call.context[key]) = None)
        => SubstitutedFromContext(overwriter, ow_call)

\* The positions of the template that hold a placeholder whose rule has a
\* fallback value and does not resolve.
FailsWithFallback(o, call) ==
    {i \in 1 .. Len(call.template) :
        /\ call.template[i] \in DOMAIN o.rules
        /\ o.rules[call.template[i]].fallback_value # None
        /\ \/ o.rules[call.template[i]].data_source \notin DOMAIN o.data_sources
           \/ resolve(o, o.rules[call.template[i]]).raised}

FallbackIsSuccess(o, call, positions) ==
    /\ \A i \in positions :
          /\ call.out.final_output[i] = o.rules[call.template[i]].fallback_value
          /\ \A k \in 1 .. Len(call.out.results) :
                call.out.results[k].placeholder = call.template[i]
                   => call.out.results[k].success
    /\ call.out.stats.success = Successes(call.out.results)
    /\ call.out.stats.failed = Len(call.out.results) - Successes(call.out.results)

\* C30: in every overwrite call, a placeholder whose rule declares a
\* fallback value and fails to resolve, for whatever reason, stands replaced
\* by the fallback in final_output, and its result is a success that
\* stats.success counts and stats.failed does not.
FallbackCountsAsSuccess ==
    [][(ow_call' # ow_call)
          => FallbackIsSuccess(overwriter, ow_call', FailsWithFallback(overwriter, ow_call'))]_vars

\* The same, for the placeholders whose rule names a registered data source.
FallbackCountsWhenSourceRegistered ==
    [][(ow_call' # ow_call)
          => FallbackIsSuccess(overwriter, ow_call',
                {i \in FailsWithFallback(overwriter, ow_call') :
                    overwriter.rules[ow_call'.template[i]].data_source
                        \in DOMAIN overwriter.data_sources})]_vars

\* The positions of the template that hold a placeholder that does not
\* resolve and has no fallback value.
FailsWithoutFallback(o, call) ==
    {i \in 1 .. Len(call.template) :
        /\ PlaceholderKey(call.template[i]) # None
        /\ IF call.template[i] \in DOMAIN o.rules
           THEN /\ o.rules[call.template[i]].fallback_value = None
                /\ \/ o.rules[call.template[i]].data_source \notin DOMAIN o.data_sources
                   \/ resolve(o, o.rules[call.template[i]]).raised
           ELSE PlaceholderKey(call.template[i]) \notin DOMAIN call.context}

FailedAndKept(call, positions) ==
    \A i \in positions :
        /\ call.out.final_output[i] = call.template[i]
        /\ \A k \in 1 .. Len(call.out.results) :
              call.out.results[k].placeholder = call.template[i]
                 => ~call.out.results[k].success

\* C31: in every overwrite call, a placeholder that fails to resolve and has
\* no fallback has a failed result and its text stands unaltered in
\* final_output, whatever else of the template was substituted.
FailedPlaceholderKept ==
    [][(ow_call' # ow_call)
          => FailedAndKept(ow_call', FailsWithoutFallback(overwriter, ow_call'))]_vars

\* The same, for the placeholders whose text does not begin with the text
\* of another placeholder of the template.
FailedPlaceholderKeptApart ==
    [][(ow_call' # ow_call)
          => FailedAndKept(ow_call',
                {i \in FailsWithoutFallback(overwriter, ow_call') :
                    ow_call'.template[i] # "$user.name"})]_vars

\* ------------------------------------------------ query builder properties
\* What the built query holds in the place of the parameter.
Inlined == SubSeq(built_query, Len(QueryPrefix) + 1, Len(built_query))

IsNumberLiteral(text) ==
    /\ Len(text) > 0
    /\ \A i \in 1 .. Len(text) : text[i] \in NumberChars

IsQuotedSafeString(text) ==
    /\ Len(text) >= 2
    /\ text[1] = "'"
    /\ text[Len(text)] = "'"
    /\ \A i \in 2 .. Len(text) - 1 : text[i] \in SafeChars

\* C32: whatever the type of the context value, it stands in the built
\* query as a numeric literal or as a single-quoted string of characters of
\* the restricted set, so that no quote, semicolon or comment sign of the
\* value is in the query.
ValueSanitized ==
    built_query # <<>> => (IsNumberLiteral(Inlined) \/ IsQuotedSafeString(Inlined))

\* The same, for the values that are numbers or strings.
ValueSanitizedNumberOrString ==
    (built_query # <<>> /\ query_value.type \in {"int", "float", "str"})
        => (IsNumberLiteral(Inlined) \/ IsQuotedSafeString(Inlined))

\* ------------------------------------------ search and re-add properties
\* The positions of the entries of a session, in insertion order.
RECURSIVE OfSession(_, _, _)
OfSession(es, i, session_id) ==
    IF i > Len(es)
    THEN <<>>
    ELSE (IF es[i].session_id = session_id THEN <<i>> ELSE <<>>)
         \o OfSession(es, i + 1, session_id)

FirstN(seq, n) == SubSeq(seq, 1, IF n < Len(seq) THEN n ELSE Len(seq))

\* Every entry of the ledger came from a create_entry call of its own.
OnlyCreated ==
    \A i, j \in 1 .. Len(entries) : i # j => entries[i].entry_id # entries[j].entry_id

\* C33: after create_entry calls only, every search by session id returns
\* exactly the entries created under that session id, in insertion order,
\* cut to at most limit entries.
SearchBySession ==
    [][(search_call' # search_call /\ OnlyCreated)
          => search_call'.results =
                FirstN(OfSession(entries, 1, search_call'.session_id),
                       search_call'.limit)]_vars

\* The same, for a limit of at least one.
SearchBySessionPositiveLimit ==
    [][(search_call' # search_call /\ OnlyCreated /\ search_call'.limit >= 1)
          => search_call'.results =
                FirstN(OfSession(entries, 1, search_call'.session_id),
                       search_call'.limit)]_vars

\* C34: no operation of the ledger changes the entry_hash or previous_hash
\* of an entry that the ledger already holds, re-adding an entry included.
HashesSetOnce ==
    [][\A i \in 1 .. Len(entries) :
          /\ entries'[i].entry_hash = entries[i].entry_hash
          /\ entries'[i].previous_hash = entries[i].previous_hash]_vars

\* The same, for the steps that do not hand add an entry it already holds.
HashesSetOnceNewEntries ==
    [][(\A i, j \in 1 .. Len(entries') : i # j => entries'[i].entry_id # entries'[j].entry_id)
          => \A i \in 1 .. Len(entries) :
                /\ entries'[i].entry_hash = entries[i].entry_hash
                /\ entries'[i].previous_hash = entries[i].previous_hash]_vars

\* ------------------------------------------------ policy engine properties
\* Some registered rule that allows the action denies a pattern of the
\* content.
DeniedBySome(rules, action, content) ==
    \E i \in 1 .. Len(rules) :
        /\ action \in rules[i].allowed_actions
        /\ rules[i].denied_patterns \cap content # {}

\* The same, with no rule before it that allows the action and asks for
\* confirmation.
DeniedBeforeConfirmation(rules, action, content) ==
    \E i \in 1 .. Len(rules) :
        /\ action \in rules[i].allowed_actions
        /\ rules[i].denied_patterns \cap content # {}
        /\ \A j \in 1 .. i - 1 :
              ~(action \in rules[j].allowed_actions /\ rules[j].requires_confirmation)

\* C35: after any add_rule and remove_rule calls, every check of a content
\* that matches a denied pattern of a registered rule allowing the action
\* returns allowed=false with risk level critical; custom rules included.
DeniedPatternBlocks ==
    [][(policy_call' # policy_call
          /\ DeniedBySome(policy_rules, policy_call'.action, policy_call'.content))
          => /\ ~policy_call'.decision.allowed
             /\ policy_call'.decision.risk_level = "critical"]_vars

\* The same, for the rules that no confirmation rule for the action precedes.
DeniedPatternBlocksBeforeConfirmation ==
    [][(policy_call' # policy_call
          /\ DeniedBeforeConfirmation(policy_rules, policy_call'.action,
                                      policy_call'.content))
          => /\ ~policy_call'.decision.allowed
             /\ policy_call'.decision.risk_level = "critical"]_vars

\* ------------------------------------------------ stage order properties
\* The place of each stage in the pipeline.
StageRank(stage) ==
    CASE stage = "init" -> 0
      [] stage = "analyzing" -> 1
      [] stage = "security_check" -> 2
      [] stage = "executing" -> 3
      [] stage = "overwriting" -> 4
      [] stage = "completed" -> 5
      [] OTHER -> 6

\* The executor of the request has been called.
ExecutorCalled(rec) == rec.pc = "executor" \/ rec.executor_invoked

\* C36: within one execute call the stage only moves forward through
\* analyzing, security_check, executing, overwriting, completed, and the
\* executor is called only after the security stage of that request is over:
\* entered before the executing stage and, unless skipped, its report made
\* and not critical.
StageForward ==
    \A r \in DOMAIN req :
        LET rec == req[r] IN
        /\ \A i, j \in DOMAIN rec.trace :
              i < j => StageRank(rec.trace[i]) < StageRank(rec.trace[j])
        /\ \A i \in DOMAIN rec.trace : StageRank(rec.trace[i]) \in 1 .. 5
        /\ rec.trace # <<>> => rec.stage = rec.trace[Len(rec.trace)]
        /\ ExecutorCalled(rec) =>
              /\ Len(rec.trace) >= 3
              /\ SubSeq(rec.trace, 1, 3) = <<"analyzing", "security_check", "executing">>
              /\ ~rec.skip_security =>
                    /\ "security" \in rec.timings
                    /\ rec.risk_level \notin {None, "critical"}

\* A call whose security check ran went through all five stages.
StageForwardWitness ==
    \E r \in DOMAIN req :
        /\ req[r].pc = "returned"
        /\ ~req[r].skip_security
        /\ req[r].executor_invoked
        /\ req[r].trace = <<"analyzing", "security_check", "executing",
                            "overwriting", "completed">>

\* ------------------------------------------------ call statistics properties
\* The call passes the lookup, the permission check and the validation.
PassesChecks(metas, c) ==
    /\ get_tool(metas, c.tool_id) # None
    /\ check_permission(metas[c.tool_id].permissions, c.granted)
    /\ c.validate = "valid"

\* The counters of a tool, 0 for a tool that has none.
Counter(stats, tool_id, field) ==
    IF tool_id \in DOMAIN stats THEN stats[tool_id][field] ELSE 0

\* C37: an execute call that passes the lookup, the permission check and the
\* validation records exactly one call in the registry, as a success exactly
\* when its ToolResult has success = true; a call rejected at one of the
\* three records nothing.
RecordedOnce ==
    [][n_calls' # n_calls =>
         LET c == last_call'.input
             id == c.tool_id
             ok == last_call'.result.success
         IN  IF PassesChecks(tool_meta, c)
             THEN /\ DOMAIN tool_stats' = DOMAIN tool_stats
                  /\ \A t \in DOMAIN tool_stats \ {id} : tool_stats'[t] = tool_stats[t]
                  /\ id \in DOMAIN tool_stats
                  /\ tool_stats'[id].call_count = tool_stats[id].call_count + 1
                  /\ tool_stats'[id].success_count =
                        tool_stats[id].success_count + (IF ok THEN 1 ELSE 0)
                  /\ tool_stats'[id].error_count =
                        tool_stats[id].error_count + (IF ok THEN 0 ELSE 1)
             ELSE tool_stats' = tool_stats]_vars

\* A call that timed out was recorded once, as an error, after an earlier
\* call was recorded as a success.
RecordedOnceWitness ==
    /\ last_call.invoked
    /\ last_call.result.error = "timeout"
    /\ ~last_call.result.success
    /\ Counter(tool_stats, "sql", "call_count") = 2
    /\ Counter(tool_stats, "sql", "success_count") = 1
    /\ Counter(tool_stats, "sql", "error_count") = 1

\* ------------------------------------------------ execute against unload properties
\* C38: under any interleaving of execute with unload_tool for the same tool
\* id, the tool's execute is never invoked on an instance after unload_tool
\* has called that instance's cleanup().
NoExecuteAfterCleanup ==
    \A t \in Tasks : ~race_exec[t].after_cleanup

\* What does hold: get_tool never hands out an instance whose cleanup() has
\* returned.
NoLookupAfterUnload ==
    [][\A t \in Tasks :
          (race_exec[t].pc = "idle" /\ race_exec'[t].pc = "validating"
             /\ race_exec'[t].tool \in DOMAIN race_cleaned)
             => race_cleaned[race_exec'[t].tool] # "returned"]_vars

\* ------------------------------------------------ execution statistics properties
\* The execute calls that have returned, and those among them that the
\* security stage did not deny.
ReturnedCalls == {r \in DOMAIN req : req[r].pc = "returned"}
CallsNotDenied == {r \in ReturnedCalls : req[r].result.error # "denied"}

\* The statistics count each call of the set exactly once.
StatsCount(calls) ==
    /\ soul_stats.total_executions = Cardinality(calls)
    /\ soul_stats.successful = Cardinality({r \in calls : req[r].result.success})
    /\ soul_stats.failed = Cardinality({r \in calls : ~req[r].result.success})

\* C39: the statistics count every execute call that returned exactly once:
\* total_executions is the number of calls, successful the number of
\* results with success = true, failed the number with success = false.
StatsCountEveryCall == StatsCount(ReturnedCalls)

\* What does hold: the calls that the security stage did not deny are
\* counted exactly once each.
StatsCountCallsNotDenied == StatsCount(CallsNotDenied)

\* ------------------------------------------------ override properties
\* C40: in every engine state reached through set_override calls, decide
\* never returns cloud_sandbox for a content whose analyzer score is
\* >= local_threshold.
SensitiveNeverCloud ==
    [][(mode_call' # mode_call /\ mode_call'.op = "decide"
          /\ mode_call'.score >= mode_engine.local_threshold)
          => mode_call'.decision.mode # "cloud_sandbox"]_vars

\* What does hold: such a content is not sent to the cloud by a call that no
\* override applies to.
SensitiveNeverCloudWithoutOverride ==
    [][(mode_call' # mode_call /\ mode_call'.op = "decide"
          /\ ~OverrideApplies(mode_engine, mode_call')
          /\ mode_call'.score >= mode_engine.local_threshold)
          => mode_call'.decision.mode # "cloud_sandbox"]_vars


====
